---- MODULE Spec2Model ----
(***************************************************************************)
(* Verification model of checkonaut: the result model and its flattening   *)
(* (check.rs CheckResult), the decoding of Check return values             *)
(* (check.rs FromLua for CheckResult) and the `check` / `test` commands    *)
(* (check.rs Check::run, check_file; test.rs Test::run, test_file).        *)
(***************************************************************************)
EXTENDS Integers, Sequences, FiniteSets, TLC

(* ------------------------------------------------------------------ *)
(* Bounds                                                             *)
(* ------------------------------------------------------------------ *)
MaxNodes == 3

MaxLuaNodes == 3

MaxFiles == 3

\* files below the root of a search
MaxEntries == 2

(* ------------------------------------------------------------------ *)
(* Result model: check.rs CheckSeverity, CheckResult, CheckError      *)
(* ------------------------------------------------------------------ *)
None == "None"

Range(seq) == {seq[i] : i \in 1..Len(seq)}

CheckSeverity == {"Error", "Warning"}

OptSeverity == CheckSeverity \cup {None}

Messages == {"a", "b"}

Nil == [tag |-> "Nil", severity |-> None, error |-> "", results |-> <<>>]

Error(severity, error) ==
  [tag |-> "Error", severity |-> severity, error |-> error, results |-> <<>>]

Many(severity, results) ==
  [tag |-> "Many", severity |-> severity, error |-> "", results |-> results]

CheckError(severity, error) == [severity |-> severity, error |-> error]

unwrap_or(opt, default) == IF opt = None THEN default ELSE opt

NilBranchExtra(acc) == Append(acc, CheckError("Error", ""))
NilBranch(acc) == acc

ErrorSeverity(severity, inherited_severity) ==
  unwrap_or(severity, inherited_severity)

ManySeverityIgnored(severity, inherited_severity) == inherited_severity
ManySeverity(severity, inherited_severity) ==
  unwrap_or(severity, inherited_severity)

PushFront(acc, e) == <<e>> \o acc
Push(acc, e) == Append(acc, e)

RECURSIVE flatten_internal(_, _, _)
RECURSIVE flatten_results(_, _, _, _)

flatten_internal(self, acc, inherited_severity) ==
  CASE self.tag = "Nil" -> NilBranch(acc)
    [] self.tag = "Error" ->
         Push(acc, CheckError(ErrorSeverity(self.severity, inherited_severity),
                              self.error))
    [] self.tag = "Many" ->
         flatten_results(self.results, 1, acc,
                         ManySeverity(self.severity, inherited_severity))

flatten_results(results, i, acc, severity) ==
  IF i > Len(results) THEN acc
  ELSE flatten_results(results, i + 1,
                       flatten_internal(results[i], acc, severity), severity)

flatten(self) == flatten_internal(self, <<>>, "Error")

(* ------------------------------------------------------------------ *)
(* Lua values returned by a Check function, and their decoding:        *)
(* check.rs impl FromLua for CheckResult                               *)
(* ------------------------------------------------------------------ *)
FieldNil == "<nil>"          \* the field is absent from the table

FieldTable == "<table>"      \* the field holds a value that is no string

LuaStrings == {"a", "b"}

SeverityFields == {FieldNil, "error", "warning", "info", FieldTable}

MessageFields == {FieldNil, "m", FieldTable}

LNil == [tag |-> "Nil", str |-> "", message |-> FieldNil,
         severity |-> FieldNil, seq |-> <<>>]

LString(s) == [tag |-> "String", str |-> s, message |-> FieldNil,
               severity |-> FieldNil, seq |-> <<>>]

\* a boolean, a number or a function
LOther == [tag |-> "Other", str |-> "", message |-> FieldNil,
           severity |-> FieldNil, seq |-> <<>>]

\* a table: its `message` and `severity` fields and its sequence part
\* (the values at 1..n, none of them nil)
LTable(message, severity, seq) ==
  [tag |-> "Table", str |-> "", message |-> message,
   severity |-> severity, seq |-> seq]

Ok(res) == [ok |-> TRUE, res |-> res, err |-> ""]

Err(err) == [ok |-> FALSE, res |-> Nil, err |-> err]

\* table.contains_key("message")
contains_key_message(table) == table.message # FieldNil

\* table.get::<Option<String>>("severity")
get_severity(table) ==
  CASE table.severity = FieldNil -> Ok(None)
    [] table.severity = FieldTable ->
         Err("error converting Lua table to String")
    [] OTHER -> Ok(table.severity)

\* table.get::<String>("message")
get_message(table) ==
  IF table.message = FieldTable
  THEN Err("error converting Lua table to String")
  ELSE Ok(table.message)

\* match severity.as_deref() { None, Some("error"), Some("warning"), Some(other) }
ParseSeverityLenient(severity) ==
  CASE severity = None -> Ok(None)
    [] severity = "error" -> Ok("Error")
    [] severity = "warning" -> Ok("Warning")
    [] OTHER -> Ok(None)
ParseSeverity(severity) ==
  CASE severity = None -> Ok(None)
    [] severity = "error" -> Ok("Error")
    [] severity = "warning" -> Ok("Warning")
    [] OTHER -> Err("error converting Lua string to CheckSeverity (invalid severity level: "
                    \o severity \o ")")

\* the severity given to the Many built from a table without `message`
SequenceSeverity(table) == None

RECURSIVE from_lua(_)
RECURSIVE from_lua_sequence(_, _, _)

from_lua(value) ==
  CASE value.tag = "Nil" -> Ok(Nil)
    [] value.tag = "String" -> Ok(Error(None, value.str))
    [] value.tag = "Table" ->
         IF ~contains_key_message(value)
         THEN from_lua_sequence(value, 1, <<>>)
         ELSE LET field == get_severity(value)
              IN IF ~field.ok THEN Err(field.err)
                 ELSE LET severity == ParseSeverity(field.res)
                      IN IF ~severity.ok THEN Err(severity.err)
                         ELSE LET error == get_message(value)
                              IN IF ~error.ok THEN Err(error.err)
                                 ELSE Ok(Error(severity.res, error.res))
    [] OTHER -> Err("error converting Lua value to CheckError (expected string or table)")

\* the loop over table.sequence_values()
from_lua_sequence(table, i, acc) ==
  IF i > Len(table.seq) THEN Ok(Many(SequenceSeverity(table), acc))
  ELSE LET pair == table.seq[i]
       IN CASE pair.tag = "Nil" -> from_lua_sequence(table, i + 1, Append(acc, Nil))
            [] pair.tag = "String" ->
                 from_lua_sequence(table, i + 1, Append(acc, Error(None, pair.str)))
            [] OTHER ->
                 LET r == from_lua(pair)
                 IN IF ~r.ok THEN Err(r.err)
                    ELSE from_lua_sequence(table, i + 1, Append(acc, r.res))

(* ------------------------------------------------------------------ *)
(* Files: the paths that can lie under the input root, and path        *)
(* operations of std::path::Path                                       *)
(* ------------------------------------------------------------------ *)
Universe ==
  {"empty.lua", "bad.lua", "boom.lua", "sev.lua", "group.lua",
   "tag.lua", "leak.lua", "guard.lua", "lib.lua", "syntax.lua", "edit.lua",
   "ok_test.lua", "fail_test.lua", "pass_test.lua", "mix_test.lua",
   "d1.json", "d2.yaml", "d3.toml", "broken.json", "notes.txt", "far.json"}

\* the universe in the order of PathBuf's Ord
SortedPaths ==
  <<"far.json", "bad.lua", "boom.lua", "broken.json", "d1.json", "d2.yaml",
    "d3.toml", "edit.lua", "empty.lua", "fail_test.lua", "group.lua", "guard.lua",
    "leak.lua", "lib.lua", "mix_test.lua", "notes.txt", "ok_test.lua",
    "pass_test.lua", "sev.lua", "syntax.lua", "tag.lua">>

PathRank(f) == CHOOSE i \in 1..Len(SortedPaths) : SortedPaths[i] = f

\* Path::file_name, as a sequence of characters
file_name(f) ==
  CASE f = "empty.lua" -> <<"e", "m", "p", "t", "y", ".", "l", "u", "a">>
    [] f = "bad.lua" -> <<"b", "a", "d", ".", "l", "u", "a">>
    [] f = "boom.lua" -> <<"b", "o", "o", "m", ".", "l", "u", "a">>
    [] f = "sev.lua" -> <<"s", "e", "v", ".", "l", "u", "a">>
    [] f = "group.lua" -> <<"g", "r", "o", "u", "p", ".", "l", "u", "a">>
    [] f = "tag.lua" -> <<"t", "a", "g", ".", "l", "u", "a">>
    [] f = "leak.lua" -> <<"l", "e", "a", "k", ".", "l", "u", "a">>
    [] f = "guard.lua" -> <<"g", "u", "a", "r", "d", ".", "l", "u", "a">>
    [] f = "lib.lua" -> <<"l", "i", "b", ".", "l", "u", "a">>
    [] f = "syntax.lua" -> <<"s", "y", "n", "t", "a", "x", ".", "l", "u", "a">>
    [] f = "edit.lua" -> <<"e", "d", "i", "t", ".", "l", "u", "a">>
    [] f = "ok_test.lua" -> <<"o", "k", "_", "t", "e", "s", "t", ".", "l", "u", "a">>
    [] f = "fail_test.lua" -> <<"f", "a", "i", "l", "_", "t", "e", "s", "t", ".", "l", "u", "a">>
    [] f = "pass_test.lua" -> <<"p", "a", "s", "s", "_", "t", "e", "s", "t", ".", "l", "u", "a">>
    [] f = "mix_test.lua" -> <<"m", "i", "x", "_", "t", "e", "s", "t", ".", "l", "u", "a">>
    [] f = "d1.json" -> <<"d", "1", ".", "j", "s", "o", "n">>
    [] f = "far.json" -> <<"f", "a", "r", ".", "j", "s", "o", "n">>
    [] f = "d2.yaml" -> <<"d", "2", ".", "y", "a", "m", "l">>
    [] f = "d3.toml" -> <<"d", "3", ".", "t", "o", "m", "l">>
    [] f = "broken.json" -> <<"b", "r", "o", "k", "e", "n", ".", "j", "s", "o", "n">>
    [] f = "notes.txt" -> <<"n", "o", "t", "e", "s", ".", "t", "x", "t">>
    [] f = "UP_TEST.LUA" -> <<"U", "P", "_", "T", "E", "S", "T", ".", "L", "U", "A">>
    [] f = "D.JSON" -> <<"D", ".", "J", "S", "O", "N">>
    [] f = "d.yml" -> <<"d", ".", "y", "m", "l">>
    [] f = ".h.json" -> <<".", "h", ".", "j", "s", "o", "n">>
    [] f = ".git" -> <<".", "g", "i", "t">>
    [] f = "sub" -> <<"s", "u", "b">>
    [] f = "r" -> <<"r">>

\* Path::parent: far.json lies under a second input root, /data, every
\* other file under /root
parent(f) == IF f = "far.json" THEN "/data" ELSE "/root"

to_string_lossy(f) == parent(f) \o "/" \o f

to_ascii_lowercase_char(c) ==
  CASE c = "A" -> "a"
    [] c = "B" -> "b"
    [] c = "C" -> "c"
    [] c = "D" -> "d"
    [] c = "E" -> "e"
    [] c = "F" -> "f"
    [] c = "G" -> "g"
    [] c = "H" -> "h"
    [] c = "I" -> "i"
    [] c = "J" -> "j"
    [] c = "K" -> "k"
    [] c = "L" -> "l"
    [] c = "M" -> "m"
    [] c = "N" -> "n"
    [] c = "O" -> "o"
    [] c = "P" -> "p"
    [] c = "Q" -> "q"
    [] c = "R" -> "r"
    [] c = "S" -> "s"
    [] c = "T" -> "t"
    [] c = "U" -> "u"
    [] c = "V" -> "v"
    [] c = "W" -> "w"
    [] c = "X" -> "x"
    [] c = "Y" -> "y"
    [] c = "Z" -> "z"
    [] OTHER -> c

to_ascii_lowercase(name) ==
  [i \in 1..Len(name) |-> to_ascii_lowercase_char(name[i])]

ends_with(name, suffix) ==
  /\ Len(name) >= Len(suffix)
  /\ SubSeq(name, Len(name) - Len(suffix) + 1, Len(name)) = suffix

eq_ignore_ascii_case(a, b) == to_ascii_lowercase(a) = to_ascii_lowercase(b)

\* Path::extension: the part after the last '.', None when the name has
\* no '.' or only a leading one
extension(f) ==
  LET name == file_name(f)
      dots == {i \in 2..Len(name) : name[i] = "."}
  IN IF dots = {} THEN None
     ELSE LET last == CHOOSE i \in dots : \A j \in dots : j <= i
          IN SubSeq(name, last + 1, Len(name))

has_extension(f, ext) ==
  extension(f) # None /\ eq_ignore_ascii_case(extension(f), ext)

(* ------------------------------------------------------------------ *)
(* File discovery: walkdir, the find_files of check.rs, test.rs and    *)
(* file.rs, and the classifiers of file names                          *)
(* ------------------------------------------------------------------ *)
\* a path is the sequence of its components; Path::file_name is the last
path_file_name(path) == file_name(path[Len(path)])

\* str::starts_with('.') on a name
starts_with_dot(name) == Len(name) > 0 /\ name[1] = "."

\* file.rs enum FileTy
FileTy == {"Test", "Check", "Data"}

\* file.rs FileTy::derive_from_byte_name
derive_from_byte_name(name_bytes) ==
  IF ends_with(name_bytes, <<"_", "t", "e", "s", "t", ".", "l", "u", "a">>)
  THEN "Test"
  ELSE IF ends_with(name_bytes, <<".", "l", "u", "a">>)
  THEN "Check"
  ELSE IF \/ ends_with(name_bytes, <<".", "j", "s", "o", "n">>)
          \/ ends_with(name_bytes, <<".", "y", "a", "m", "l">>)
          \/ ends_with(name_bytes, <<".", "y", "m", "l">>)
          \/ ends_with(name_bytes, <<".", "t", "o", "m", "l">>)
  THEN "Data"
  ELSE None

\* file.rs FileTy::derive_from_path
derive_from_path(path) ==
  LET name_bytes == path_file_name(path)
  IN IF ends_with(name_bytes, <<"_", "t", "e", "s", "t", ".", "l", "u", "a">>)
     THEN "Test"
     ELSE IF ends_with(name_bytes, <<".", "l", "u", "a">>)
     THEN "Check"
     ELSE IF \/ ends_with(name_bytes, <<".", "j", "s", "o", "n">>)
             \/ ends_with(name_bytes, <<".", "y", "a", "m", "l">>)
             \/ ends_with(name_bytes, <<".", "y", "m", "l">>)
             \/ ends_with(name_bytes, <<".", "t", "o", "m", "l">>)
     THEN "Data"
     ELSE None

\* walkdir::WalkDir::new(root): the entries the walk yields. A root that
\* is a regular file is yielded itself, at depth 0; a root directory is
\* yielded at depth 0, then every directory and every file below it
DirEntry(path, depth, is_file) ==
  [path |-> path, depth |-> depth, is_file |-> is_file]

WalkDir(root) ==
  IF root.is_file THEN {DirEntry(root.path, 0, TRUE)}
  ELSE {DirEntry(root.path, 0, FALSE)}
       \cup UNION {{DirEntry(root.path \o SubSeq(e.dirs, 1, k), k, FALSE) :
                      k \in 1..Len(e.dirs)} : e \in root.files}
       \cup {DirEntry(root.path \o e.dirs \o <<e.name>>, Len(e.dirs) + 1, TRUE) :
               e \in root.files}

\* check.rs find_files, line 113: .min_depth(1)
min_depth == 1

\* check.rs find_files: the paths the filter_map keeps
find_files(root, dotfiles) ==
  {e.path : e \in {x \in WalkDir(root) :
     /\ x.depth >= min_depth
     /\ ~(~dotfiles /\ starts_with_dot(path_file_name(x.path)))
     /\ x.is_file}}

\* test.rs find_files: the same walk, written a second time
test_find_files(root, dotfiles) ==
  {e.path : e \in {x \in WalkDir(root) :
     /\ x.depth >= min_depth
     /\ ~(~dotfiles /\ starts_with_dot(path_file_name(x.path)))
     /\ x.is_file}}

\* file.rs FileSearcher::find_files, lines 82-104: the test of one file
\* entry (the arm is guarded by entry.file_type().is_file())
searcher_included(self, entry) ==
  LET name_bytes == path_file_name(entry.path)
      ty == derive_from_byte_name(name_bytes)
      included == CASE ty = "Test" -> self.include_test_files
                    [] ty = "Check" -> self.include_check_files
                    [] ty = "Data" -> self.include_data_files
                    [] OTHER -> FALSE
      include_dot == IF ~entry.is_file THEN self.include_dotdirs
                     ELSE self.include_dotfiles
  IN included /\ (include_dot \/ ~starts_with_dot(name_bytes))

\* file.rs FileSearcher::find_files
searcher_find_files(self, root) ==
  {e.path : e \in {x \in WalkDir(root) :
     x.is_file /\ searcher_included(self, x)}}

\* file.rs struct FileSearchResult, as sets: the order of the parallel
\* fold is not fixed
FileSearchResult(check_files, test_files, data_files) ==
  [check_files |-> check_files, test_files |-> test_files,
   data_files |-> data_files]

\* file.rs FileSearcher::search
search(self, root) ==
  LET found == searcher_find_files(self, root)
  IN FileSearchResult({p \in found : derive_from_path(p) = "Check"},
                      {p \in found : derive_from_path(p) = "Test"},
                      {p \in found : derive_from_path(p) = "Data"})

\* is_prefix(p, q): the path q lies at or below the path p
is_prefix(p, q) == Len(p) <= Len(q) /\ SubSeq(q, 1, Len(p)) = p

\* the places of a tree whose read can fail: the root itself and every
\* directory below it
Readable(root) ==
  {e.path : e \in {x \in WalkDir(root) : ~x.is_file \/ x.depth = 0}}

\* walkdir::Error: the error of one failed read; it keeps the path of the
\* directory or entry that could not be read
walkdir_Error(path) == [path |-> path]

\* file.rs enum FileSearchError, variant FailedDirectoryWalk
FailedDirectoryWalk(path, source) ==
  [display |-> [text |-> "Failed to walk directory", path |-> path],
   path |-> path, source |-> source]

\* no error
NoSearchError ==
  [display |-> [text |-> "", path |-> <<>>], path |-> <<>>,
   source |-> [path |-> <<>>]]

\* walkdir::WalkDir::new(root) when the reads of the places in `failed`
\* fail: the walk yields an error for each of them it comes to and does
\* not descend into it; every other entry is yielded as before
WalkDirFailing(root, failed) ==
  LET reached(p) == \A d \in failed : ~(is_prefix(d, p) /\ d # p)
  IN [entries |-> {e \in WalkDir(root) :
                     /\ reached(e.path)
                     /\ ~(e.depth = 0 /\ e.path \in failed)},
      errors |-> {walkdir_Error(d) : d \in {x \in failed : reached(x)}}]

\* file.rs FileSearcher::find_files, lines 76-116, on a walk with failed
\* reads: the items Some(Ok(path)) of the kept files, and one item
\* Some(Err(..)) for each error of the walk; the context of the error is
\* `path`, the argument of find_files
searcher_find_files_failing(self, path, failed) ==
  LET walk == WalkDirFailing(path, failed)
  IN {[ok |-> TRUE, path |-> e.path, err |-> NoSearchError] :
        e \in {x \in walk.entries : x.is_file /\ searcher_included(self, x)}}
       \cup {[ok |-> FALSE, path |-> <<>>,
               err |-> FailedDirectoryWalk(path.path, err)] :
               err \in walk.errors}

\* file.rs FileSearcher::search, lines 50-62: the closure of try_fold
try_fold_step(acc, result) ==
  IF result.ok
  THEN LET ty == derive_from_path(result.path)
       IN [ok |-> TRUE, err |-> NoSearchError,
           value |-> CASE ty = "Test" ->
                            [acc EXCEPT !.test_files = @ \cup {result.path}]
                       [] ty = "Check" ->
                            [acc EXCEPT !.check_files = @ \cup {result.path}]
                       [] ty = "Data" ->
                            [acc EXCEPT !.data_files = @ \cup {result.path}]
                       [] OTHER -> acc]
  ELSE [ok |-> FALSE, err |-> result.err, value |-> acc]

\* file.rs FileSearcher::search, lines 47-69, on a walk with failed reads:
\* the results the parallel try_fold and try_reduce_with can give. A fold
\* stops at the first error it meets and gives that error, and the reduce
\* of an error with anything is an error, so with any error among the
\* items the result is one of the errors (which one, the order decides),
\* and without one it is the fold of every item
search_failing(self, root, failed) ==
  LET items == searcher_find_files_failing(self, root, failed)
      errs == {i \in items : ~i.ok}
      empty == FileSearchResult({}, {}, {})
  IN IF errs # {}
     THEN {[ok |-> FALSE, err |-> try_fold_step(empty, i).err,
            value |-> empty] : i \in errs}
     ELSE {[ok |-> TRUE, err |-> NoSearchError, value |-> search(self, root)]}

(* ------------------------------------------------------------------ *)
(* Interpreters: mlua::Lua states, their globals and package.path      *)
(* ------------------------------------------------------------------ *)
GlobalNames ==
  {"Check", "seen", "_CHECK_FILE", "_CHECK_DIR", "_TEST_FILE", "_TEST_DIR",
   "TestCheck", "TestValue"}

NilV == [t |-> "nil", v |-> ""]

StrV(str) == [t |-> "string", v |-> str]

FnV(body) == [t |-> "function", v |-> body]

\* the globals of a freshly constructed interpreter (standard library aside)
FreshGlobals == [n \in GlobalNames |-> NilV]

FreshInterp(by) ==
  [creator |-> by, users |-> {by}, globals |-> FreshGlobals, path |-> <<>>,
   loaded |-> <<>>]

\* Lua::new(): a new interpreter in the pool; its handle is the pool's length
Lua_new_shared(pool, by) ==
  IF pool = <<>> THEN Append(pool, FreshInterp(by)) ELSE pool
Lua_new(pool, by) == Append(pool, FreshInterp(by))

\* Lua::clone(): a second handle to the same interpreter
Lua_clone(handle) == handle

Use(pool, handle, by, globals) ==
  [pool EXCEPT ![handle].users = @ \cup {by}, ![handle].globals = globals]

\* lua.load(contents).set_name(file).exec(): the interpreter keeps the
\* chunk it ran; `at` is package.path at that moment (the directories
\* added to the default path, which holds none of a script's directory)
Load(pool, handle, file) ==
  [pool EXCEPT ![handle].loaded =
     Append(@, [file |-> file, at |-> pool[handle].path])]

(* ------------------------------------------------------------------ *)
(* Scripts: what the body of each Lua file does when it is executed,   *)
(* and what its functions do when they are called                      *)
(* ------------------------------------------------------------------ *)
LuaOk(globals, value) ==
  [ok |-> TRUE, err |-> [type |-> "", msg |-> ""], globals |-> globals,
   ret |-> value]

LuaErr(globals, err) ==
  [ok |-> FALSE, err |-> err, globals |-> globals, ret |-> LNil]

RuntimeError(msg) == [type |-> "RuntimeError", msg |-> msg]

SyntaxError(msg) == [type |-> "SyntaxError", msg |-> msg]

\* impl Display for mlua::Error
Display(e) ==
  CASE e.type = "RuntimeError" -> "runtime error: " \o e.msg
    [] e.type = "SyntaxError" -> "syntax error: " \o e.msg
    [] OTHER -> e.msg

\* e.contains("assertion failed!"), on the messages the scripts raise
contains_assertion_failed(msg) == msg \in {"assertion failed!"}

RECURSIVE Exec(_, _, _, _)
RECURSIVE Call(_, _, _)

\* require(module): the module is searched in the directories of
\* package.path and its body is run in the requiring interpreter
require(module, g, path, fs) ==
  IF \E f \in fs : f = module \o ".lua" /\ parent(f) \in Range(path)
  THEN Exec(module \o ".lua", g, path, fs)
  ELSE LuaErr(g, RuntimeError("module '" \o module \o "' not found"))

\* lua.load(contents).exec(): the body of file f run on globals g, with
\* package.path holding the directories `path` and the files fs on disk
Exec(f, g, path, fs) ==
  CASE f = "empty.lua" -> LuaOk([g EXCEPT !["Check"] = FnV("empty")], LNil)
    [] f = "bad.lua" -> LuaOk([g EXCEPT !["Check"] = FnV("bad")], LNil)
    [] f = "boom.lua" -> LuaOk([g EXCEPT !["Check"] = FnV("boom")], LNil)
    [] f = "sev.lua" -> LuaOk([g EXCEPT !["Check"] = FnV("sev")], LNil)
    [] f = "group.lua" -> LuaOk([g EXCEPT !["Check"] = FnV("group")], LNil)
    [] f = "tag.lua" ->
         LuaOk([g EXCEPT !["seen"] = StrV("tag"), !["Check"] = FnV("nothing")],
               LNil)
    [] f = "leak.lua" -> LuaOk([g EXCEPT !["Check"] = FnV("leak")], LNil)
    [] f = "guard.lua" ->
         IF g["seen"] # NilV THEN LuaErr(g, RuntimeError("dup"))
         ELSE LuaOk([g EXCEPT !["Check"] = FnV("nothing")], LNil)
    [] f = "lib.lua" -> LuaOk([g EXCEPT !["seen"] = StrV("lib")], LNil)
    [] f = "edit.lua" -> LuaOk([g EXCEPT !["Check"] = FnV("edit")], LNil)
    [] f = "ok_test.lua" ->
         LET r == require("empty", g, path, fs)
         IN IF ~r.ok THEN r
            ELSE LuaOk([r.globals EXCEPT !["TestCheck"] = FnV("test_empty"),
                                         !["TestValue"] = FnV("test_assert")],
                       LNil)
    [] f = "fail_test.lua" ->
         LET r == require("boom", g, path, fs)
         IN IF ~r.ok THEN r
            ELSE LuaOk([r.globals EXCEPT !["TestCheck"] = FnV("test_raise"),
                                         !["TestValue"] = FnV("test_value")],
                       LNil)
    [] f = "pass_test.lua" ->
         LET r == require("empty", g, path, fs)
         IN IF ~r.ok THEN r
            ELSE LuaOk([r.globals EXCEPT !["TestCheck"] = FnV("test_empty")],
                       LNil)
    [] f = "mix_test.lua" ->
         LET r == require("boom", g, path, fs)
         IN IF ~r.ok THEN r
            ELSE LuaOk([r.globals EXCEPT !["TestCheck"] = FnV("test_raise"),
                                         !["TestValue"] = FnV("test_assert")],
                       LNil)
    [] OTHER -> LuaErr(g, SyntaxError("unexpected symbol"))

\* a call of the global `name` from Lua code
CallGlobal(name, doc, g) ==
  IF g[name].t = "function" THEN Call(g[name].v, doc, g)
  ELSE LuaErr(g, RuntimeError("attempt to call a " \o g[name].t \o " value"))

\* function.call(doc): the function `body` called on document doc with
\* globals g
Call(body, doc, g) ==
  CASE body = "empty" -> LuaOk(g, LTable(FieldNil, FieldNil, <<>>))
    [] body = "bad" -> LuaOk(g, LString("bad"))
    [] body = "boom" -> LuaErr(g, RuntimeError("boom"))
    [] body = "sev" -> LuaOk(g, LTable("m", doc.level, <<>>))
    [] body = "group" ->
         LuaOk(g, LTable(FieldNil, "warning", <<LString("a"), LString("b")>>))
    \* doc.level = "warning"
    [] body = "edit" -> LuaOk(g, LNil)
    [] body = "leak" ->
         IF g["seen"] # NilV THEN LuaOk(g, LString("seen")) ELSE LuaOk(g, LNil)
    \* local result = Check(); assert(type(result) == "table");
    \* assert(#result == 0)
    [] body = "test_empty" ->
         LET r == CallGlobal("Check", doc, g)
         IN IF ~r.ok THEN r
            ELSE IF r.ret.tag = "Table" /\ Len(r.ret.seq) = 0
            THEN LuaOk(r.globals, LNil)
            ELSE LuaErr(r.globals, RuntimeError("assertion failed!"))
    \* Check(); error("unreachable")
    [] body = "test_raise" ->
         LET r == CallGlobal("Check", doc, g)
         IN IF ~r.ok THEN r
            ELSE LuaErr(r.globals, RuntimeError("unreachable"))
    \* assert(false)
    [] body = "test_assert" -> LuaErr(g, RuntimeError("assertion failed!"))
    \* return "v"
    [] body = "test_value" -> LuaOk(g, LString("v"))
    [] OTHER -> LuaOk(g, LNil)

(* ------------------------------------------------------------------ *)
(* Data files: the documents each one parses to                        *)
(* ------------------------------------------------------------------ *)
Doc(level) == [level |-> level]

ParseOk(docs) == [ok |-> TRUE, err |-> <<>>, docs |-> docs]

ParseErr(err) == [ok |-> FALSE, err |-> err, docs |-> <<>>]

\* serde_json::from_slice / toml::from_slice / serde_norway on the bytes of f
Contents(f) ==
  CASE f = "d1.json" -> ParseOk(<<Doc("warning")>>)
    [] f = "far.json" -> ParseOk(<<Doc("warning")>>)
    [] f = "d2.yaml" ->
         ParseOk(<<Doc(FieldNil), Doc("error"), Doc("warning")>>)
    [] f = "d3.toml" -> ParseOk(<<Doc("info")>>)
    [] OTHER -> ParseErr(<<"expected value at line 1 column 1">>)

\* check.rs check_file, lines 159-202
parse_documents(f) ==
  CASE has_extension(f, <<"j", "s", "o", "n">>) ->
         IF Contents(f).ok THEN Contents(f)
         ELSE ParseErr(<<"failed to parse JSON">> \o Contents(f).err)
    [] has_extension(f, <<"t", "o", "m", "l">>) ->
         IF Contents(f).ok THEN Contents(f)
         ELSE ParseErr(<<"failed to parse TOML">> \o Contents(f).err)
    [] has_extension(f, <<"y", "m", "l">>)
         \/ has_extension(f, <<"y", "a", "m", "l">>) ->
         IF Contents(f).ok THEN Contents(f)
         ELSE ParseErr(<<"failed to parse YAML document">> \o Contents(f).err)
    [] OTHER ->
         ParseErr(<<"unrecognised file extension for file " \o to_string_lossy(f)>>)

\* check_function.call(doc): a document is a Lua table and is handed to
\* the function by reference; this is the table after the call of `body`
document_after(body, doc) ==
  IF body = "edit" THEN [doc EXCEPT !.level = "warning"] ELSE doc

(* ------------------------------------------------------------------ *)
(* The check command: check.rs Check::run, check_file, perform_check,  *)
(* has_check_function                                                  *)
(* ------------------------------------------------------------------ *)
Fine(value) == [ok |-> TRUE, err |-> <<>>, value |-> value]

Fail(err) == [ok |-> FALSE, err |-> err, value |-> FALSE]

\* eyre's wrap_err: a context put in front of the chain of causes
wrap_err(context, err) == <<context>> \o err

\* check.rs Check::run, lines 37-44
is_lua_file(f) ==
  /\ has_extension(f, <<"l", "u", "a">>)
  /\ ~ends_with(file_name(f), <<"_", "t", "e", "s", "t", ".", "l", "u", "a">>)

\* check.rs has_check_function: the script body is run in an interpreter
\* of its own, then `Check` is looked up as a function
has_check_function(f, fs) ==
  LET r == Exec(f, FreshGlobals, <<>>, fs)
  IN IF ~r.ok
     THEN Fail(<<"failed to load check Lua script: " \o Display(r.err)>>)
     ELSE Fine(r.globals["Check"].t = "function")

\* check.rs Check::run, lines 61-62
ensure_inputs_unchecked(lua, data) == <<>>
ensure_inputs(lua, data) ==
  CASE Len(lua) = 0 -> <<"no check files found to run">>
    [] Len(data) = 0 -> <<"no data files found to check">>
    [] OTHER -> <<>>

\* check.rs perform_check, lines 218-219: the arguments of
\* check_function.call(doc)
check_args(doc, check, data_file) == <<doc>>

\* check.rs perform_check, line 221: errors.extend(res.flatten())
extend_front(errors, more) == more \o errors
extend(errors, more) == errors \o more

CallOk(globals, errors) ==
  [ok |-> TRUE, err |-> "", globals |-> globals, errors |-> errors]

CallErr(globals, err) ==
  [ok |-> FALSE, err |-> err, globals |-> globals, errors |-> <<>>]

\* check.rs perform_check, lines 218-221: one call of Check on one document
check_call_swallow(body, doc, g) ==
  LET r == Call(body, doc, g)
  IN IF ~r.ok THEN CallOk(r.globals, <<CheckError("Error", Display(r.err))>>)
     ELSE LET res == from_lua(r.ret)
          IN IF ~res.ok
             THEN CallErr(r.globals, "failed to execute 'Check' function: " \o res.err)
             ELSE CallOk(r.globals, flatten(res.res))
check_call(body, doc, g) ==
  LET r == Call(body, doc, g)
  IN IF ~r.ok
     THEN CallErr(r.globals,
                  "failed to execute 'Check' function: " \o Display(r.err))
     ELSE LET res == from_lua(r.ret)
          IN IF ~res.ok
             THEN CallErr(r.globals, "failed to execute 'Check' function: " \o res.err)
             ELSE CallOk(r.globals, flatten(res.res))

\* results.sort_unstable_by_key(|e| e.data_file.clone())
RECURSIVE sort_by_data_file(_)
sort_by_data_file(rs) ==
  IF rs = <<>> THEN <<>>
  ELSE LET m == CHOOSE i \in 1..Len(rs) :
                  \A j \in 1..Len(rs) :
                    PathRank(rs[i].data_file) <= PathRank(rs[j].data_file)
       IN <<rs[m]>> \o sort_by_data_file(SubSeq(rs, 1, m - 1)
                                           \o SubSeq(rs, m + 1, Len(rs)))

IsError(e) == e.severity = "Error"

IsWarning(e) == e.severity # "Error"

\* check.rs Check::run, line 92
found_error_any(found, errors, warnings) ==
  found \/ errors # <<>> \/ warnings # <<>>
found_error_update(found, errors, warnings) == found \/ errors # <<>>

\* check.rs Check::run, lines 88-100: the log events of one (file, check)
log_events(path, check, errs) ==
  LET errors == SelectSeq(errs, IsError)
      warnings == SelectSeq(errs, IsWarning)
  IN (IF errors # <<>>
      THEN <<[level |-> "error", path |-> path, check |-> check,
              findings |-> errors]>>
      ELSE <<>>)
     \o (IF warnings # <<>>
         THEN <<[level |-> "warn", path |-> path, check |-> check,
                 findings |-> warnings]>>
         ELSE <<>>)

\* the report loop over one data file's (check, errors) list
RECURSIVE report_checks(_, _, _)
report_checks(path, errors, st) ==
  IF errors = <<>> THEN st
  ELSE LET head == errors[1]
       IN report_checks(path, Tail(errors),
            [found |-> found_error_update(st.found,
                                          SelectSeq(head.errors, IsError),
                                          SelectSeq(head.errors, IsWarning)),
             log |-> st.log \o log_events(path, head.check, head.errors)])

\* the report loop over the sorted results
RECURSIVE report_results(_, _)
report_results(rs, st) ==
  IF rs = <<>> THEN st
  ELSE report_results(Tail(rs), report_checks(rs[1].data_file, rs[1].errors, st))

(* ------------------------------------------------------------------ *)
(* The test command: test.rs Test::run, test_file                      *)
(* ------------------------------------------------------------------ *)
\* test.rs Test::run, lines 28-35
is_test_file(f) ==
  ends_with(to_ascii_lowercase(file_name(f)),
            <<"_", "t", "e", "s", "t", ".", "l", "u", "a">>)

\* k.to_string_lossy().starts_with("Test"), on the names of the globals
starts_with_Test(name) == name \in {"TestCheck", "TestValue"}

\* test.rs test_file, lines 124-132: the globals that are called
test_functions(g) ==
  {n \in DOMAIN g : g[n].t = "function" /\ starts_with_Test(n)}

\* lua.from_value(val) and serde_json::to_string
to_json(value) ==
  CASE value.tag = "String" -> Fine("\"" \o value.str \o "\"")
    [] value.tag = "Table" /\ value.message = FieldNil
         /\ value.severity = FieldNil /\ value.seq = <<>> -> Fine("{}")
    [] OTHER -> Fail(<<"failed to convert return value to JSON">>)

\* test.rs test_file, lines 134-158: what the result of one test function
\* does to the records of the file
test_outcome_continue(name, r, records) ==
  CASE r.ok /\ r.ret = LNil -> [stop |-> FALSE, ok |-> TRUE, records |-> records]
    [] r.ok /\ r.ret # LNil ->
         IF to_json(r.ret).ok
         THEN [stop |-> FALSE, ok |-> TRUE,
               records |-> Append(records, name \o ": " \o to_json(r.ret).value)]
         ELSE [stop |-> TRUE, ok |-> FALSE, records |-> to_json(r.ret).err]
    [] OTHER ->
         [stop |-> FALSE, ok |-> TRUE,
          records |-> Append(records, name \o ": " \o r.err.msg)]
test_outcome(name, r, records) ==
  CASE r.ok /\ r.ret = LNil -> [stop |-> FALSE, ok |-> TRUE, records |-> records]
    [] r.ok /\ r.ret # LNil ->
         IF to_json(r.ret).ok
         THEN [stop |-> FALSE, ok |-> TRUE,
               records |-> Append(records, name \o ": " \o to_json(r.ret).value)]
         ELSE [stop |-> TRUE, ok |-> FALSE, records |-> to_json(r.ret).err]
    [] ~r.ok /\ r.err.type = "RuntimeError"
         /\ contains_assertion_failed(r.err.msg) ->
         [stop |-> FALSE, ok |-> TRUE,
          records |-> Append(records, name \o ": " \o r.err.msg)]
    [] OTHER ->
         [stop |-> TRUE, ok |-> TRUE,
          records |-> <<"Test function '" \o name \o "' failed: "
                          \o Display(r.err)>>]

\* results.sort_unstable_by_key(|r| r.file.clone())
RECURSIVE sort_by_file(_)
sort_by_file(rs) ==
  IF rs = <<>> THEN <<>>
  ELSE LET m == CHOOSE i \in 1..Len(rs) :
                  \A j \in 1..Len(rs) :
                    PathRank(rs[i].file) <= PathRank(rs[j].file)
       IN <<rs[m]>> \o sort_by_file(SubSeq(rs, 1, m - 1)
                                      \o SubSeq(rs, m + 1, Len(rs)))

\* test.rs Test::run, lines 60-64
RECURSIVE log_test_failures(_)
log_test_failures_skip(rs) ==
  IF rs = <<>> THEN <<>> ELSE log_test_failures(Tail(rs))
log_test_failures(rs) ==
  IF rs = <<>> THEN <<>>
  ELSE [i \in 1..Len(rs[1].results) |->
          [level |-> "error", path |-> rs[1].file, check |-> "",
           findings |-> <<rs[1].results[i]>>]]
       \o log_test_failures(Tail(rs))

(* ------------------------------------------------------------------ *)
(* State                                                              *)
(* ------------------------------------------------------------------ *)
VARIABLES
  results,      \* siblings of the CheckResult under construction
  gsev,         \* severity of the group that holds `results`
  inh,          \* inherited severity handed to flatten_internal
  root,         \* the CheckResult that was flattened, or NoTree
  findings,     \* flatten(root)
  findingsInh,  \* flatten_internal(root, <<>>, inh)
  lstack,       \* Lua values under construction
  ret,          \* the Lua value a Check function returned, or NoValue
  decoded,      \* from_lua(ret)
  dfindings,    \* flatten of the decoded CheckResult
  mode,         \* the command that runs: "check" or "test"
  dir,          \* the files that lie under the input root
  pc,           \* position of the main thread in Check::run / Test::run
  input_files,  \* the files the directory walk has delivered, in order
  lua_files,    \* the check scripts
  data_files,   \* the data files
  interps,      \* every interpreter constructed so far
  tasks,        \* the per-file tasks of the parallel map
  saved,        \* the first error the parallel collect has observed
  outcome,      \* the Result of run(), or Running
  reported,     \* the log events of the findings
  tree,         \* the root a search starts from and the files below it
  opts,         \* the FileSearcher that searches
  answer        \* what the last classifier or search returned

flattenVars == <<results, gsev, inh, root, findings, findingsInh>>

decodeVars == <<lstack, ret, decoded, dfindings>>

runVars == <<mode, dir, pc, input_files, lua_files, data_files,
             interps, tasks, saved, outcome, reported>>

searchVars == <<tree, opts, answer>>

vars == <<flattenVars, decodeVars, runVars, searchVars>>

Running == [status |-> "running", err |-> <<>>]

Success == [status |-> "ok", err |-> <<>>]

Failure(err) == [status |-> "err", err |-> err]

RunIdle ==
  /\ mode = "none"
  /\ dir = {}
  /\ pc = "done"
  /\ input_files = <<>>
  /\ lua_files = <<>>
  /\ data_files = <<>>
  /\ interps = <<>>
  /\ tasks = <<>>
  /\ saved = <<>>
  /\ outcome = Running
  /\ reported = <<>>

\* file.rs FileSearcher::default()
FileSearcher(dotfiles, dotdirs, check, test, data) ==
  [include_dotfiles |-> dotfiles, include_dotdirs |-> dotdirs,
   follow_links |-> FALSE, include_check_files |-> check,
   include_test_files |-> test, include_data_files |-> data]

RootDir(files) == [is_file |-> FALSE, path |-> <<"r">>, files |-> files]

RootFile(name) == [is_file |-> TRUE, path |-> <<name>>, files |-> {}]

NoAnswer ==
  [op |-> "none", name |-> "", by_path |-> None, by_byte_name |-> None,
   partition |-> None, filter |-> None, dotfiles |-> FALSE, files |-> {},
   check_files |-> {}, test_files |-> {}, data_files |-> {},
   failed |-> {}, ok |-> TRUE, err |-> NoSearchError]

SearchIdle ==
  /\ tree = RootDir({})
  /\ opts = FileSearcher(FALSE, FALSE, FALSE, FALSE, FALSE)
  /\ answer = NoAnswer

NoTree == [tag |-> "NoTree", severity |-> None, error |-> "", results |-> <<>>]

NoValue == [tag |-> "NoValue", str |-> "", message |-> FieldNil,
            severity |-> FieldNil, seq |-> <<>>]

RECURSIVE LuaNodes(_)
RECURSIVE LuaNodesSeq(_, _)
LuaNodes(v) == 1 + LuaNodesSeq(v.seq, 1)
LuaNodesSeq(s, i) ==
  IF i > Len(s) THEN 0 ELSE LuaNodes(s[i]) + LuaNodesSeq(s, i + 1)

DecodeIdle ==
  /\ lstack = <<>>
  /\ ret = NoValue
  /\ decoded = Ok(Nil)
  /\ dfindings = <<>>

FlattenIdle ==
  /\ results = <<>>
  /\ gsev = None
  /\ inh = "Error"
  /\ root = NoTree
  /\ findings = <<>>
  /\ findingsInh = <<>>

RECURSIVE Nodes(_)
RECURSIVE NodesSeq(_, _)
Nodes(t) == 1 + NodesSeq(t.results, 1)
NodesSeq(s, i) == IF i > Len(s) THEN 0 ELSE Nodes(s[i]) + NodesSeq(s, i + 1)

(* ------------------------------------------------------------------ *)
(* Flattening of an arbitrary CheckResult                             *)
(* ------------------------------------------------------------------ *)
InitFlatten ==
  /\ results = <<>>
  /\ gsev \in OptSeverity
  /\ inh \in CheckSeverity
  /\ root = NoTree
  /\ findings = <<>>
  /\ findingsInh = <<>>
  /\ DecodeIdle
  /\ RunIdle
  /\ SearchIdle

PushNil ==
  /\ root = NoTree
  /\ NodesSeq(results, 1) < MaxNodes
  /\ results' = Append(results, Nil)
  /\ UNCHANGED <<gsev, inh, root, findings, findingsInh, decodeVars, runVars, searchVars>>

PushError ==
  /\ root = NoTree
  /\ NodesSeq(results, 1) < MaxNodes
  /\ \E s \in OptSeverity, m \in Messages :
       results' = Append(results, Error(s, m))
  /\ UNCHANGED <<gsev, inh, root, findings, findingsInh, decodeVars, runVars, searchVars>>

WrapMany ==
  /\ root = NoTree
  /\ NodesSeq(results, 1) < MaxNodes
  /\ \E s \in OptSeverity, k \in 0..Len(results) :
       results' = Append(SubSeq(results, 1, Len(results) - k),
                         Many(s, SubSeq(results, Len(results) - k + 1,
                                        Len(results))))
  /\ UNCHANGED <<gsev, inh, root, findings, findingsInh, decodeVars, runVars, searchVars>>

Flatten ==
  /\ root = NoTree
  /\ \E t \in {Many(gsev, results)} \cup
              (IF Len(results) = 1 THEN {results[1]} ELSE {}) :
       /\ root' = t
       /\ findings' = flatten(t)
       /\ findingsInh' = flatten_internal(t, <<>>, inh)
  /\ UNCHANGED <<results, gsev, inh, decodeVars, runVars, searchVars>>

NextFlatten == PushNil \/ PushError \/ WrapMany \/ Flatten

SpecFlatten == InitFlatten /\ [][NextFlatten]_vars

(* ------------------------------------------------------------------ *)
(* Reading a CheckResult by positions: the Leaves of a tree in         *)
(* left-to-right depth-first order, each named by its path of child    *)
(* indices from the root.                                              *)
(* ------------------------------------------------------------------ *)
RECURSIVE LeafPaths(_)
RECURSIVE LeafPathsFrom(_, _)
LeafPaths(t) ==
  CASE t.tag = "Error" -> << <<>> >>
    [] t.tag = "Many" -> LeafPathsFrom(t.results, 1)
    [] OTHER -> <<>>

LeafPathsFrom(s, i) ==
  IF i > Len(s) THEN <<>>
  ELSE LET sub == LeafPaths(s[i])
       IN [j \in 1..Len(sub) |-> <<i>> \o sub[j]] \o LeafPathsFrom(s, i + 1)

RECURSIVE NodeAt(_, _)
NodeAt(t, path) ==
  IF path = <<>> THEN t ELSE NodeAt(t.results[path[1]], Tail(path))

\* The severities set on the way from the root down to the node at `path`,
\* the node's own included; the nearest one that is set is the last.
SetSeverities(t, path) ==
  SelectSeq([k \in 1..(Len(path) + 1) |->
               NodeAt(t, SubSeq(path, 1, k - 1)).severity],
            LAMBDA s : s # None)

NearestSeverity(t, path) ==
  LET set == SetSeverities(t, path)
  IN IF set = <<>> THEN "Error" ELSE set[Len(set)]

Flattened == root # NoTree

\* C4: every finding of flatten has the severity its Leaf sets, otherwise
\* that of the nearest enclosing Group that sets one, otherwise Error.
C4_SeverityInheritance ==
  Flattened =>
    LET paths == LeafPaths(root)
    IN /\ Len(findings) = Len(paths)
       /\ \A i \in 1..Len(paths) :
            findings[i].severity = NearestSeverity(root, paths[i])

\* an unset Leaf inside Group(Warning) inside an unset root Group
C4_Witness ==
  /\ root = Many(None, <<Many("Warning", <<Error(None, "a")>>)>>)
  /\ findings = <<CheckError("Warning", "a")>>

\* a bare root Leaf with unset severity
C4_WitnessBareLeaf ==
  /\ root = Error(None, "a")
  /\ findings = <<CheckError("Error", "a")>>

\* C5: flatten returns one finding per Leaf and none for Empty, in the
\* left-to-right depth-first order of the Leaves, each with the message
\* of its Leaf.
C5_OneFindingPerLeafInOrder ==
  Flattened =>
    LET paths == LeafPaths(root)
    IN /\ Len(findings) = Len(paths)
       /\ \A i \in 1..Len(paths) :
            findings[i].error = NodeAt(root, paths[i]).error

C5_Witness ==
  /\ root = Many(gsev, <<Error(None, "b"), Nil, Error(None, "a")>>)
  /\ findings = <<CheckError(unwrap_or(gsev, "Error"), "b"),
                  CheckError(unwrap_or(gsev, "Error"), "a")>>

\* C6: flattening Group(s, [A,B,C]) equals flattening Group(s, [A,B])
\* followed by flattening Group(s, [C]), under the same inherited severity.
C6_FlattenAssociative ==
  (Flattened /\ root = Many(gsev, results) /\ Len(results) = 3) =>
    findingsInh =
      flatten_internal(Many(gsev, SubSeq(results, 1, 2)), <<>>, inh)
        \o flatten_internal(Many(gsev, SubSeq(results, 3, 3)), <<>>, inh)

C6_Witness ==
  /\ root = Many(gsev, results)
  /\ Len(results) = 3
  /\ gsev = None
  /\ inh = "Warning"
  /\ Len(findingsInh) = 3
  /\ findingsInh[3].severity = "Warning"
  /\ findingsInh[1].error # findingsInh[3].error

(* ------------------------------------------------------------------ *)
(* Decoding of an arbitrary Check return value                         *)
(* ------------------------------------------------------------------ *)
InitDecode ==
  /\ FlattenIdle
  /\ DecodeIdle
  /\ RunIdle
  /\ SearchIdle

PushString ==
  /\ ret = NoValue
  /\ LuaNodesSeq(lstack, 1) < MaxLuaNodes
  /\ \E s \in LuaStrings : lstack' = Append(lstack, LString(s))
  /\ UNCHANGED <<ret, decoded, dfindings, flattenVars, runVars, searchVars>>

PushOther ==
  /\ ret = NoValue
  /\ LuaNodesSeq(lstack, 1) < MaxLuaNodes
  /\ lstack' = Append(lstack, LOther)
  /\ UNCHANGED <<ret, decoded, dfindings, flattenVars, runVars, searchVars>>

WrapTable ==
  /\ ret = NoValue
  /\ LuaNodesSeq(lstack, 1) < MaxLuaNodes
  /\ \E m \in MessageFields, s \in SeverityFields, k \in 0..Len(lstack) :
       lstack' = Append(SubSeq(lstack, 1, Len(lstack) - k),
                        LTable(m, s, SubSeq(lstack, Len(lstack) - k + 1,
                                            Len(lstack))))
  /\ UNCHANGED <<ret, decoded, dfindings, flattenVars, runVars, searchVars>>

\* res: CheckResult = check_function.call(doc)?; errors.extend(res.flatten())
Decode ==
  /\ ret = NoValue
  /\ \E v \in {LNil} \cup (IF Len(lstack) = 1 THEN {lstack[1]} ELSE {}) :
       /\ ret' = v
       /\ decoded' = from_lua(v)
       /\ dfindings' = IF from_lua(v).ok THEN flatten(from_lua(v).res) ELSE <<>>
  /\ UNCHANGED <<lstack, flattenVars, runVars, searchVars>>

NextDecode == PushString \/ PushOther \/ WrapTable \/ Decode

SpecDecode == InitDecode /\ [][NextDecode]_vars

(* ------------------------------------------------------------------ *)
(* Discovery and classification of files under an arbitrary root       *)
(* ------------------------------------------------------------------ *)
SearchNames ==
  {"empty.lua", "ok_test.lua", "d1.json", "notes.txt", "UP_TEST.LUA",
   "D.JSON", "d.yml", ".h.json"}

\* the directories, below the root, a file can lie in
DirChains == {<<>>, <<"sub">>, <<".git">>}

EntryPool == {[dirs |-> d, name |-> n] : d \in DirChains, n \in SearchNames}

Roots ==
  {RootFile(n) : n \in SearchNames}
    \cup {RootDir(files) : files \in {fs \in SUBSET EntryPool :
                                        Cardinality(fs) <= MaxEntries}}

\* check.rs Check::run, lines 37-56: where the partition puts a file
partition_role(f) == IF is_lua_file(f) THEN "Check" ELSE "Data"

\* test.rs Test::run, lines 28-35: what the filter keeps
filter_role(f) == IF is_test_file(f) THEN "Test" ELSE None

InitSearch ==
  /\ FlattenIdle
  /\ DecodeIdle
  /\ RunIdle
  /\ tree \in Roots
  /\ opts \in {FileSearcher(a, b, c, d, e) :
                 a \in BOOLEAN, b \in BOOLEAN, c \in BOOLEAN, d \in BOOLEAN,
                 e \in BOOLEAN}
  /\ answer = NoAnswer

\* the names of the files of the tree
TreeNames ==
  IF tree.is_file THEN {tree.path[1]} ELSE {e.name : e \in tree.files}

\* one file name is given to every classifier of the program
Classify ==
  /\ answer = NoAnswer
  /\ \E n \in TreeNames :
       answer' = [NoAnswer EXCEPT
                    !.op = "classify",
                    !.name = n,
                    !.by_path = derive_from_path(<<"r", n>>),
                    !.by_byte_name = derive_from_byte_name(file_name(n)),
                    !.partition = partition_role(n),
                    !.filter = filter_role(n)]
  /\ UNCHANGED <<tree, opts, flattenVars, decodeVars, runVars>>

\* file.rs FileSearcher::search
Search ==
  /\ answer = NoAnswer
  /\ LET r == search(opts, tree)
     IN answer' = [NoAnswer EXCEPT
                     !.op = "search",
                     !.files = searcher_find_files(opts, tree),
                     !.check_files = r.check_files,
                     !.test_files = r.test_files,
                     !.data_files = r.data_files]
  /\ UNCHANGED <<tree, opts, flattenVars, decodeVars, runVars>>

\* check.rs Check::run, lines 27-59: the walk and the partition (the
\* probing of the scripts aside)
FindCheck ==
  /\ answer = NoAnswer
  /\ \E dotfiles \in BOOLEAN :
       LET found == find_files(tree, dotfiles)
       IN answer' = [NoAnswer EXCEPT
                       !.op = "check",
                       !.dotfiles = dotfiles,
                       !.files = found,
                       !.check_files = {p \in found :
                          partition_role(p[Len(p)]) = "Check"},
                       !.data_files = {p \in found :
                          partition_role(p[Len(p)]) = "Data"}]
  /\ UNCHANGED <<tree, opts, flattenVars, decodeVars, runVars>>

\* test.rs Test::run, lines 24-36: the walk and the filter
FindTest ==
  /\ answer = NoAnswer
  /\ \E dotfiles \in BOOLEAN :
       LET found == test_find_files(tree, dotfiles)
       IN answer' = [NoAnswer EXCEPT
                       !.op = "test",
                       !.dotfiles = dotfiles,
                       !.files = found,
                       !.test_files = {p \in found :
                          filter_role(p[Len(p)]) = "Test"}]
  /\ UNCHANGED <<tree, opts, flattenVars, decodeVars, runVars>>

\* file.rs FileSearcher::search when the read of some places of the tree
\* fails
SearchFailing ==
  /\ answer = NoAnswer
  /\ \E failed \in SUBSET Readable(tree) \ {{}} :
       \E r \in search_failing(opts, tree, failed) :
         answer' = [NoAnswer EXCEPT
                      !.op = "search_failing",
                      !.failed = failed,
                      !.ok = r.ok,
                      !.err = r.err,
                      !.check_files = r.value.check_files,
                      !.test_files = r.value.test_files,
                      !.data_files = r.value.data_files]
  /\ UNCHANGED <<tree, opts, flattenVars, decodeVars, runVars>>

NextSearch == Classify \/ Search \/ FindCheck \/ FindTest \/ SearchFailing

SpecSearch == InitSearch /\ [][NextSearch]_vars

\* the role the classification rule gives a file name
ExpectedRole(n) ==
  LET name == file_name(n)
  IN IF ends_with(name, <<"_", "t", "e", "s", "t", ".", "l", "u", "a">>)
     THEN "Test"
     ELSE IF ends_with(name, <<".", "l", "u", "a">>)
     THEN "Check"
     ELSE IF \/ has_extension(n, <<"j", "s", "o", "n">>)
             \/ has_extension(n, <<"y", "a", "m", "l">>)
             \/ has_extension(n, <<"y", "m", "l">>)
             \/ has_extension(n, <<"t", "o", "m", "l">>)
     THEN "Data"
     ELSE None

\* C11: every classifier of the program gives a file name the one role
\* of the rule: `_test.lua` is Test, any other `.lua` is Check, the
\* extensions json, yaml, yml and toml in any letter case are Data, all
\* else is excluded (None); the partition of `check` puts a name among
\* the checks or the data files exactly when that is its role, and the
\* filter of `test` keeps exactly the Test names
C11_ClassifiersAgree ==
  answer.op = "classify" =>
    LET role == ExpectedRole(answer.name)
    IN /\ answer.by_path = role
       /\ answer.by_byte_name = role
       /\ answer.partition = (IF role \in {"Check", "Data"} THEN role ELSE None)
       /\ (answer.filter = "Test") <=> (role = "Test")

\* the two classifiers of file.rs agree with each other on every name
C11_FileTyAgrees ==
  answer.op = "classify" => answer.by_path = answer.by_byte_name

(* ------------------------------------------------------------------ *)
(* The check and test commands on a directory of files                 *)
(* ------------------------------------------------------------------ *)
IdleTask(f) ==
  [pc |-> "idle", file |-> f, lua |-> 0, docs |-> <<>>, ci |-> 1, di |-> 1,
   errors |-> <<>>, results |-> <<>>, err |-> <<>>, calls |-> <<>>,
   raised |-> "", pending |-> {}]

\* The files a run is started on. `check` takes a test file for a data
\* file whatever its contents, so one test file stands for all of them;
\* `test` drops every file that is no test file, so it is run on the test
\* files, the check scripts they require and one file of each other kind
Inputs(command) ==
  IF command = "check"
  THEN Universe \ {"fail_test.lua", "pass_test.lua", "mix_test.lua"}
  ELSE {"ok_test.lua", "fail_test.lua", "pass_test.lua", "mix_test.lua",
        "empty.lua", "boom.lua", "syntax.lua", "d1.json", "notes.txt"}

InitRun ==
  /\ FlattenIdle
  /\ DecodeIdle
  /\ SearchIdle
  /\ mode \in {"check", "test"}
  /\ dir \in {d \in SUBSET Inputs(mode) : Cardinality(d) <= MaxFiles}
  /\ pc = "walk"
  /\ input_files = <<>>
  /\ lua_files = <<>>
  /\ data_files = <<>>
  /\ interps = <<>>
  /\ tasks = <<>>
  /\ saved = <<>>
  /\ outcome = Running
  /\ reported = <<>>

\* the orders a set of files can be delivered in
Orders(files) ==
  {order \in [1..Cardinality(files) -> files] :
     \A i, j \in 1..Cardinality(files) : order[i] = order[j] => i = j}

\* find_files and .collect::<Result<Vec<_>>>(): the parallel walk
\* delivers the files in any order
Walk ==
  /\ pc = "walk"
  /\ input_files' \in Orders(dir)
  /\ pc' = "partition"
  /\ UNCHANGED <<mode, dir, lua_files, data_files, interps, tasks,
                 saved, outcome, reported, flattenVars, decodeVars, searchVars>>

\* check.rs Check::run, lines 36-57: one turn of the partition loop
Partition ==
  /\ mode = "check"
  /\ pc = "partition"
  /\ input_files # <<>>
  /\ LET file == Head(input_files)
         probe == has_check_function(file, dir)
     IN IF is_lua_file(file)
        THEN /\ interps' = LET pool == Lua_new(interps, "main")
                            IN Load(pool, Len(pool), file)
             /\ data_files' = data_files
             /\ IF ~probe.ok
                THEN /\ outcome' = Failure(wrap_err(
                          "checking Lua file for Check function: "
                            \o to_string_lossy(file), probe.err))
                     /\ pc' = "done"
                     /\ UNCHANGED <<input_files, lua_files>>
                ELSE /\ lua_files' = IF probe.value THEN Append(lua_files, file)
                                     ELSE lua_files
                     /\ input_files' = Tail(input_files)
                     /\ UNCHANGED <<pc, outcome>>
        ELSE /\ data_files' = Append(data_files, file)
             /\ input_files' = Tail(input_files)
             /\ UNCHANGED <<pc, outcome, lua_files, interps>>
  /\ UNCHANGED <<mode, dir, tasks, saved, reported, flattenVars, decodeVars, searchVars>>

\* check.rs Check::run, lines 61-62, and the start of the parallel map
Ensure ==
  /\ mode = "check"
  /\ pc = "partition"
  /\ input_files = <<>>
  /\ LET err == ensure_inputs(lua_files, data_files)
     IN IF err # <<>>
        THEN /\ outcome' = Failure(err)
             /\ pc' = "done"
             /\ tasks' = tasks
        ELSE /\ pc' = "eval"
             /\ tasks' = [i \in 1..Len(data_files) |-> IdleTask(data_files[i])]
             /\ outcome' = outcome
  /\ UNCHANGED <<mode, dir, input_files, lua_files, data_files, interps,
                 saved, reported, flattenVars, decodeVars, searchVars>>

\* a task ends with an error: the error gets the context of its data file
\* and is saved by the collect when it is the first one
TaskFails(t, task, err) ==
  LET full == wrap_err("checking data file: " \o to_string_lossy(task.file),
                       err)
  IN /\ tasks' = [tasks EXCEPT ![t] = [task EXCEPT !.pc = "err", !.err = full]]
     /\ saved' = IF saved = <<>> THEN full ELSE saved

\* check.rs check_file, lines 136-202: a new interpreter, its globals and
\* package.path, and the documents of the data file
TaskBegin(t) ==
  /\ mode = "check"
  /\ pc = "eval"
  /\ tasks[t].pc = "idle"
  /\ LET file == tasks[t].file
         pool == Lua_new(interps, t)
         lua == Len(pool)
         globals == [pool[lua].globals EXCEPT
                       !["_CHECK_FILE"] = StrV(to_string_lossy(file)),
                       !["_CHECK_DIR"] = StrV(parent(file))]
         parsed == parse_documents(file)
     IN /\ interps' = [Use(pool, lua, t, globals) EXCEPT
                         ![lua].path = Append(@, parent(file))]
        /\ IF ~parsed.ok
           THEN TaskFails(t, [tasks[t] EXCEPT !.lua = lua], parsed.err)
           ELSE /\ tasks' = [tasks EXCEPT ![t].pc = IF Len(lua_files) = 0
                                                    THEN "ok" ELSE "load",
                                          ![t].lua = lua,
                                          ![t].docs = parsed.docs]
                /\ saved' = saved
  /\ UNCHANGED <<mode, dir, pc, input_files, lua_files, data_files,
                 outcome, reported, flattenVars, decodeVars, searchVars>>

\* the end of perform_check for the current check, and the loop of
\* check_file, lines 229-235
NextCheck(task, errors) ==
  [task EXCEPT !.results = IF errors # <<>>
                           THEN Append(@, [check |-> lua_files[task.ci],
                                           errors |-> errors])
                           ELSE @,
               !.errors = <<>>,
               !.ci = @ + 1,
               !.di = 1,
               !.pc = IF task.ci + 1 > Len(lua_files) THEN "ok" ELSE "load"]

\* check.rs perform_check, lines 205-216: the check script is loaded into
\* a clone of the task's interpreter handle and `Check` is looked up
TaskLoad(t) ==
  /\ mode = "check"
  /\ pc = "eval"
  /\ tasks[t].pc = "load"
  /\ LET check == lua_files[tasks[t].ci]
         lua == Lua_clone(tasks[t].lua)
         r == Exec(check, interps[lua].globals, interps[lua].path, dir)
         context == "failed to run check: " \o to_string_lossy(check)
     IN /\ interps' = Load(Use(interps, lua, t, r.globals), lua, check)
        /\ IF ~r.ok
           THEN TaskFails(t, [tasks[t] EXCEPT !.raised = Display(r.err)],
                  wrap_err(context,
                    <<"failed to load check Lua script: " \o Display(r.err)>>))
           ELSE IF r.globals["Check"].t # "function"
           THEN TaskFails(t, tasks[t], wrap_err(context,
                  <<"failed to get 'Check' function from Lua script: "
                      \o "error converting Lua " \o r.globals["Check"].t
                      \o " to function">>))
           ELSE /\ tasks' = [tasks EXCEPT ![t] =
                     IF Len(tasks[t].docs) = 0 THEN NextCheck(@, <<>>)
                     ELSE [@ EXCEPT !.pc = "call", !.di = 1, !.errors = <<>>]]
                /\ saved' = saved
  /\ UNCHANGED <<mode, dir, pc, input_files, lua_files, data_files,
                 outcome, reported, flattenVars, decodeVars, searchVars>>

\* check.rs perform_check, lines 217-222: Check is called on the next
\* document and its findings are added
TaskCall(t) ==
  /\ mode = "check"
  /\ pc = "eval"
  /\ tasks[t].pc = "call"
  /\ LET check == lua_files[tasks[t].ci]
         lua == tasks[t].lua
         g == interps[lua].globals
         doc == tasks[t].docs[tasks[t].di]
         raw == Call(g["Check"].v, check_args(doc, check, tasks[t].file)[1], g)
         r == check_call(g["Check"].v,
                         check_args(doc, check, tasks[t].file)[1], g)
         called == Append(tasks[t].calls,
                          [check |-> check, doc |-> tasks[t].di,
                           raised |-> ~raw.ok, ret |-> raw.ret,
                           decoded |-> from_lua(raw.ret),
                           ok |-> r.ok, errors |-> r.errors,
                           msg |-> raw.err.msg,
                           args |-> check_args(doc, check, tasks[t].file)])
         errors == extend(tasks[t].errors, r.errors)
         docs == [tasks[t].docs EXCEPT
                    ![tasks[t].di] = document_after(g["Check"].v, doc)]
     IN /\ interps' = Use(interps, lua, t, r.globals)
        /\ IF ~r.ok
           THEN /\ TaskFails(t, [tasks[t] EXCEPT !.calls = called,
                                                  !.docs = docs,
                                                  !.raised = IF raw.ok THEN "" ELSE Display(raw.err)],
                             wrap_err("failed to run check: "
                                        \o to_string_lossy(check), <<r.err>>))
           ELSE /\ tasks' = [tasks EXCEPT ![t] =
                     IF tasks[t].di = Len(tasks[t].docs)
                     THEN NextCheck([@ EXCEPT !.calls = called,
                                              !.docs = docs,
                                              !.raised = IF raw.ok THEN "" ELSE Display(raw.err)], errors)
                     ELSE [@ EXCEPT !.calls = called, !.docs = docs,
                                    !.raised = IF raw.ok THEN "" ELSE Display(raw.err),
                                    !.errors = errors, !.di = @ + 1]]
                /\ saved' = saved
  /\ UNCHANGED <<mode, dir, pc, input_files, lua_files, data_files,
                 outcome, reported, flattenVars, decodeVars, searchVars>>

\* the parallel collect stops handing out work once an error is saved
TaskSkip(t) ==
  /\ pc = "eval"
  /\ tasks[t].pc = "idle"
  /\ saved # <<>>
  /\ tasks' = [tasks EXCEPT ![t].pc = "skipped"]
  /\ UNCHANGED <<mode, dir, pc, input_files, lua_files, data_files,
                 interps, saved, outcome, reported, flattenVars, decodeVars, searchVars>>

EvalResults ==
  [i \in 1..Len(tasks) |-> [data_file |-> tasks[i].file,
                            errors |-> tasks[i].results]]

\* check.rs Check::run, lines 83-104: the collect returns the saved error,
\* or the results are sorted and reported
Collect ==
  /\ mode = "check"
  /\ pc = "eval"
  /\ \A t \in 1..Len(tasks) : tasks[t].pc \in {"ok", "err", "skipped"}
  /\ pc' = "done"
  /\ IF saved # <<>>
     THEN /\ outcome' = Failure(saved)
          /\ reported' = reported
     ELSE LET st == report_results(sort_by_data_file(EvalResults),
                                   [found |-> FALSE, log |-> <<>>])
          IN /\ reported' = st.log
             /\ outcome' = IF st.found
                           THEN Failure(<<"one or more errors were found during checks">>)
                           ELSE Success
  /\ UNCHANGED <<mode, dir, input_files, lua_files, data_files, interps,
                 tasks, saved, flattenVars, decodeVars, searchVars>>

NoDoc == Doc(FieldNil)

\* test.rs Test::run, lines 28-36: the test files are kept
Filter ==
  /\ mode = "test"
  /\ pc = "partition"
  /\ pc' = "eval"
  /\ tasks' = LET kept == SelectSeq(input_files, is_test_file)
              IN [i \in 1..Len(kept) |-> IdleTask(kept[i])]
  /\ input_files' = <<>>
  /\ UNCHANGED <<mode, dir, lua_files, data_files, interps,
                 saved, outcome, reported, flattenVars, decodeVars, searchVars>>

TestFails(t, task, err) ==
  LET full == wrap_err("while testing file \"" \o to_string_lossy(task.file)
                         \o "\"", err)
  IN /\ tasks' = [tasks EXCEPT ![t] = [task EXCEPT !.pc = "err", !.err = full]]
     /\ saved' = IF saved = <<>> THEN full ELSE saved

\* test.rs test_file, lines 96-121: a new interpreter, its globals and
\* package.path, and the test script loaded into it
TestBegin(t) ==
  /\ mode = "test"
  /\ pc = "eval"
  /\ tasks[t].pc = "idle"
  /\ LET file == tasks[t].file
         pool == Lua_new(interps, t)
         lua == Len(pool)
         globals == [pool[lua].globals EXCEPT
                       !["_TEST_FILE"] = StrV(to_string_lossy(file)),
                       !["_TEST_DIR"] = StrV(parent(file))]
         path == Append(pool[lua].path, parent(file))
         r == Exec(file, globals, path, dir)
     IN /\ interps' = Load([Use(pool, lua, t, r.globals) EXCEPT
                               ![lua].path = path], lua, file)
        /\ IF ~r.ok
           THEN TestFails(t, [tasks[t] EXCEPT !.lua = lua,
                                              !.raised = Display(r.err)],
                          <<"failed to load test Lua script: " \o Display(r.err)>>)
           ELSE /\ tasks' = [tasks EXCEPT
                     ![t].lua = lua,
                     ![t].pending = test_functions(r.globals),
                     ![t].pc = IF test_functions(r.globals) = {} THEN "ok"
                               ELSE "tests"]
                /\ saved' = saved
  /\ UNCHANGED <<mode, dir, pc, input_files, lua_files, data_files,
                 outcome, reported, flattenVars, decodeVars, searchVars>>

\* test.rs test_file, lines 124-159: the next test function, in the order
\* in which the globals are iterated, is called
TestCall(t) ==
  /\ mode = "test"
  /\ pc = "eval"
  /\ tasks[t].pc = "tests"
  /\ \E name \in tasks[t].pending :
       LET lua == tasks[t].lua
           g == interps[lua].globals
           r == Call(g[name].v, NoDoc, g)
           o == test_outcome(name, r, tasks[t].results)
           called == Append(tasks[t].calls,
                            [check |-> name, doc |-> 0, raised |-> ~r.ok,
                             ret |-> r.ret, decoded |-> Ok(Nil), ok |-> r.ok,
                             errors |-> <<>>, msg |-> r.err.msg,
                             args |-> <<>>])
           task == [tasks[t] EXCEPT
                      !.calls = called,
                      !.raised = IF r.ok THEN "" ELSE Display(r.err),
                      !.pending = @ \ {name}]
       IN /\ interps' = Use(interps, lua, t, r.globals)
          /\ IF ~o.ok THEN TestFails(t, task, o.records)
             ELSE /\ tasks' = [tasks EXCEPT ![t] =
                       [task EXCEPT !.results = o.records,
                                    !.pc = IF o.stop \/ task.pending = {}
                                           THEN "ok" ELSE "tests"]]
                  /\ saved' = saved
  /\ UNCHANGED <<mode, dir, pc, input_files, lua_files, data_files,
                 outcome, reported, flattenVars, decodeVars, searchVars>>

\* test.rs Test::run, lines 54-66: the files with records are kept, sorted
\* and logged
CollectTests ==
  /\ mode = "test"
  /\ pc = "eval"
  /\ \A t \in 1..Len(tasks) : tasks[t].pc \in {"ok", "err", "skipped"}
  /\ pc' = "done"
  /\ IF saved # <<>>
     THEN /\ outcome' = Failure(saved)
          /\ reported' = reported
     ELSE LET failed == sort_by_file(SelectSeq(tasks,
                                       LAMBDA task : task.results # <<>>))
          IN /\ reported' = log_test_failures(failed)
             /\ outcome' = IF failed # <<>>
                           THEN Failure(<<"one or more tests failed">>)
                           ELSE Success
  /\ UNCHANGED <<mode, dir, input_files, lua_files, data_files, interps,
                 tasks, saved, flattenVars, decodeVars, searchVars>>

Next ==
  \/ Walk
  \/ Partition
  \/ Ensure
  \/ \E t \in 1..Len(tasks) : TaskBegin(t)
  \/ \E t \in 1..Len(tasks) : TaskLoad(t)
  \/ \E t \in 1..Len(tasks) : TaskCall(t)
  \/ \E t \in 1..Len(tasks) : TaskSkip(t)
  \/ Collect
  \/ Filter
  \/ \E t \in 1..Len(tasks) : TestBegin(t)
  \/ \E t \in 1..Len(tasks) : TestCall(t)
  \/ CollectTests

Init == InitRun

Spec == Init /\ [][Next]_vars

(* ------------------------------------------------------------------ *)
(* Properties of the check and test commands                           *)
(* ------------------------------------------------------------------ *)
Tasks == 1..Len(tasks)

Last(seq) == seq[Len(seq)]

\* the globals check_file gives a new interpreter before any script runs
SetupGlobals(f) ==
  [FreshGlobals EXCEPT !["_CHECK_FILE"] = StrV(to_string_lossy(f)),
                       !["_CHECK_DIR"] = StrV(parent(f))]

\* C1: when a check script is loaded during `check`, the globals of the
\* interpreter it is loaded into are those of a freshly constructed one:
\* no binding of a check that ran before is visible.
C1_FreshInterpreterAtLoad ==
  mode = "check" =>
    \A t \in Tasks :
      tasks[t].pc = "load" =>
        interps[tasks[t].lua].globals = SetupGlobals(tasks[t].file)

\* C2: every interpreter is used only by the thread that constructed it,
\* the interpreter of a per-file task was constructed by that task, and no
\* two tasks hold the same interpreter.
C2_InterpreterOwnedByOneTask ==
  /\ \A i \in 1..Len(interps) : interps[i].users = {interps[i].creator}
  /\ \A t \in Tasks :
       tasks[t].lua # 0 => interps[tasks[t].lua].creator = t
  /\ \A t1, t2 \in Tasks :
       (t1 # t2 /\ tasks[t1].lua # 0) => tasks[t1].lua # tasks[t2].lua

\* two check tasks have loaded a check script and are about to call Check
\* at the same time, each in its own interpreter
C2_Witness ==
  /\ mode = "check"
  /\ \E t1, t2 \in Tasks :
       /\ t1 # t2
       /\ tasks[t1].pc = "call" /\ tasks[t2].pc = "call"
       /\ tasks[t1].lua # tasks[t2].lua
       /\ interps[tasks[t1].lua].globals["Check"].t = "function"
       /\ interps[tasks[t2].lua].globals["Check"].t = "function"

\* a test task is calling its test functions while another test task has
\* constructed its interpreter
C2_WitnessTest ==
  /\ mode = "test"
  /\ \E t1, t2 \in Tasks :
       /\ t1 # t2
       /\ tasks[t1].pc = "tests" /\ tasks[t1].calls # <<>>
       /\ tasks[t2].lua # 0 /\ tasks[t2].lua # tasks[t1].lua

Raised(t) == tasks[t].raised # ""

\* the error of task t ends with the failure message its script raised
CarriesScriptMessage(err, t) ==
  /\ err # <<>>
  /\ Last(err) \in {"failed to load check Lua script: " \o tasks[t].raised,
                    "failed to execute 'Check' function: " \o tasks[t].raised}

\* no finding of the check that task t was running is recorded or reported
NoFindingOfFailedPair(t) ==
  /\ \A i \in 1..Len(tasks[t].results) :
       tasks[t].results[i].check # lua_files[tasks[t].ci]
  /\ \A i \in 1..Len(reported) :
       ~(reported[i].path = tasks[t].file
           /\ reported[i].check = lua_files[tasks[t].ci])

IsDataName(f) ==
  \/ has_extension(f, <<"j", "s", "o", "n">>)
  \/ has_extension(f, <<"t", "o", "m", "l">>)
  \/ has_extension(f, <<"y", "m", "l">>)
  \/ has_extension(f, <<"y", "a", "m", "l">>)

\* C3 as stated: whenever a script raised for some pair, the run ends with
\* a fatal error that carries that script's failure message, and no finding
\* is recorded for the pair.  (Directories of check scripts and data files.)
C3_FatalCarriesEveryScriptFailure ==
  (mode = "check" /\ pc = "done"
     /\ \A f \in dir : is_lua_file(f) \/ IsDataName(f)) =>
    \A t \in Tasks :
      Raised(t) =>
        /\ outcome.status = "err"
        /\ CarriesScriptMessage(outcome.err, t)
        /\ NoFindingOfFailedPair(t)

\* C3, amended: a script failure ends its task with an error that carries
\* the script's message and records no finding for the pair; the run then
\* ends with the first error the parallel evaluation observed, which is
\* the error of one of the failed tasks (that of the raising task when no
\* other task failed), and reports no finding.
C3_ScriptFailureIsFatal ==
  mode = "check" =>
    /\ \A t \in Tasks :
         Raised(t) =>
           /\ tasks[t].pc = "err"
           /\ CarriesScriptMessage(tasks[t].err, t)
           /\ NoFindingOfFailedPair(t)
    /\ (pc = "done" /\ \E t \in Tasks : Raised(t)) =>
         /\ outcome.status = "err"
         /\ reported = <<>>
         /\ \E t \in Tasks : tasks[t].pc = "err" /\ outcome.err = tasks[t].err
         /\ \A t \in Tasks :
              (Raised(t) /\ \A u \in Tasks \ {t} : tasks[u].pc # "err") =>
                /\ outcome.err = tasks[t].err
                /\ CarriesScriptMessage(outcome.err, t)

\* Check raised "boom" and the run ended with that error
C3_Witness ==
  /\ mode = "check"
  /\ pc = "done"
  /\ \E t \in Tasks :
       /\ tasks[t].raised = "runtime error: boom"
       /\ outcome = Failure(tasks[t].err)
       /\ Last(outcome.err) =
            "failed to execute 'Check' function: runtime error: boom"

\* a check script raised while it was loaded for a data file
C3_WitnessLoad ==
  /\ mode = "check"
  /\ pc = "done"
  /\ \E t \in Tasks :
       /\ tasks[t].raised = "runtime error: dup"
       /\ outcome = Failure(tasks[t].err)

(* ------------------------------------------------------------------ *)
(* Properties of the decoding                                          *)
(* ------------------------------------------------------------------ *)
Decoded == ret # NoValue

\* the severity a `severity` field names
FieldSeverity(field) ==
  CASE field = "error" -> "Error"
    [] field = "warning" -> "Warning"
    [] OTHER -> None

\* C7: a table without `message` decodes to a Group that has the severity
\* of the table's `severity` field and the decoded elements as children, so
\* its unset-severity leaves are findings of that severity.
C7_SequenceCarriesSeverity ==
  (Decoded /\ ret.tag = "Table" /\ ret.message = FieldNil
     /\ ret.severity \in {FieldNil, "error", "warning"} /\ decoded.ok) =>
    /\ decoded.res.tag = "Many"
    /\ decoded.res.severity = FieldSeverity(ret.severity)
    /\ Len(decoded.res.results) = Len(ret.seq)
    /\ \A i \in 1..Len(ret.seq) :
         decoded.res.results[i] = from_lua(ret.seq[i]).res
    /\ \A i \in 1..Len(ret.seq) :
         (ret.seq[i].tag = "String" /\ ret.severity = "warning") =>
           \E j \in 1..Len(dfindings) :
             dfindings[j] = CheckError("Warning", ret.seq[i].str)

\* what the code does instead: the Group of a table without `message`
\* never has a severity, so its unset leaves are Error findings
C7_SequenceSeverityDropped ==
  (Decoded /\ ret.tag = "Table" /\ ret.message = FieldNil /\ decoded.ok) =>
    /\ decoded.res.tag = "Many"
    /\ decoded.res.severity = None
    /\ \A i \in 1..Len(ret.seq) :
         ret.seq[i].tag = "String" =>
           \E j \in 1..Len(dfindings) :
             dfindings[j] = CheckError("Error", ret.seq[i].str)

C7_Reached ==
  /\ ret = LTable(FieldNil, "warning", <<LString("a"), LString("b")>>)
  /\ dfindings = <<CheckError("Error", "a"), CheckError("Error", "b")>>

\* a table whose `message` is no string does not decode, whatever its
\* severity is
MessageMustBeString ==
  (Decoded /\ ret.tag = "Table" /\ ret.message = FieldTable) => ~decoded.ok

(* ------------------------------------------------------------------ *)
(* Properties of the check command: severities and outcome             *)
(* ------------------------------------------------------------------ *)
HasMessage(value) ==
  value.tag = "Table" /\ value.message \notin {FieldNil, FieldTable}

C8_WitnessValid ==
  /\ mode = "check"
  /\ \E t \in Tasks :
       /\ Len(tasks[t].calls) = 2
       /\ tasks[t].calls[1].decoded = Ok(Error(None, "m"))
       /\ tasks[t].calls[2].decoded = Ok(Error("Error", "m"))

\* every finding recorded by a task of the run
AllFindings ==
  UNION {UNION {Range(tasks[t].results[i].errors) :
                  i \in 1..Len(tasks[t].results)} : t \in Tasks}

ReportedFindings ==
  UNION {Range(reported[i].findings) : i \in 1..Len(reported)}

Completed ==
  /\ mode = "check"
  /\ pc = "done"
  /\ lua_files # <<>>
  /\ data_files # <<>>
  /\ Len(tasks) = Len(data_files)
  /\ \A t \in Tasks : tasks[t].pc = "ok"

\* C9: with checks and data files and no fatal error, the run fails exactly
\* when some finding has severity Error; Warning findings are reported and
\* never make the run fail.
C9_FailureIffErrorFinding ==
  Completed =>
    /\ outcome.status \in {"ok", "err"}
    /\ outcome.status = "err" <=> \E e \in AllFindings : e.severity = "Error"
    /\ outcome.status = "err" =>
         outcome.err = <<"one or more errors were found during checks">>
    /\ ReportedFindings = AllFindings

\* a run that reported Warning findings and succeeded
C9_Witness ==
  /\ Completed
  /\ outcome = Success
  /\ \E e \in ReportedFindings : e.severity = "Warning"

\* a run that failed on an Error finding
C9_WitnessError ==
  /\ Completed
  /\ outcome.status = "err"
  /\ \E e \in ReportedFindings : e.severity = "Error"

NoCheckFiles == <<"no check files found to run">>

NoDataFiles == <<"no data files found to check">>

NoCheckCalled == \A t \in Tasks : tasks[t].calls = <<>>

\* C10: when no check script is discovered the run ends with the fatal
\* error "no check files", whatever data files there are, and no Check
\* function is called; when check scripts exist and no data file is found
\* it ends with another fatal error.
C10_EmptySetsAreFatal ==
  (mode = "check" /\ pc = "done") =>
    /\ lua_files = <<>> =>
         /\ outcome.status = "err"
         /\ NoCheckCalled
         /\ input_files = <<>> => outcome = Failure(NoCheckFiles)
    /\ (lua_files # <<>> /\ data_files = <<>> /\ input_files = <<>>) =>
         /\ outcome = Failure(NoDataFiles)
         /\ NoCheckCalled
    /\ (lua_files # <<>> /\ input_files = <<>>
          /\ \A f \in dir : ~IsDataName(f)) =>
         /\ outcome.status = "err"
         /\ outcome.err # NoCheckFiles
         /\ NoCheckCalled

\* data files and a script without Check, but no check script
C10_Witness ==
  /\ mode = "check"
  /\ pc = "done"
  /\ "lib.lua" \in dir
  /\ \E f \in dir : IsDataName(f)
  /\ lua_files = <<>>
  /\ data_files # <<>>
  /\ outcome = Failure(NoCheckFiles)

\* check scripts but no file at all besides them
C10_WitnessNoData ==
  /\ mode = "check"
  /\ pc = "done"
  /\ lua_files # <<>>
  /\ outcome = Failure(NoDataFiles)

(* ------------------------------------------------------------------ *)
(* Properties of the discovery in the check command                    *)
(* ------------------------------------------------------------------ *)
IsTestName(f) ==
  ends_with(file_name(f), <<"_", "t", "e", "s", "t", ".", "l", "u", "a">>)

\* C12: in the check command a file whose name ends in `_test.lua` is
\* ignored: it is neither among the scripts that are probed and run as
\* checks nor among the data files that are parsed, and no task
\* evaluates it
C12_TestFilesIgnored ==
  mode = "check" =>
    /\ \A f \in Range(lua_files) \cup Range(data_files) : ~IsTestName(f)
    /\ \A t \in 1..Len(tasks) : ~IsTestName(tasks[t].file)

\* a run that would succeed without the test file ends with the error of
\* parsing the test file as data
C12_TestFileParsed ==
  /\ mode = "check"
  /\ pc = "done"
  /\ dir = {"empty.lua", "d1.json", "ok_test.lua"}
  /\ outcome = Failure(<<"checking data file: /root/ok_test.lua",
                         "unrecognised file extension for file /root/ok_test.lua">>)

(* ------------------------------------------------------------------ *)
(* Properties of the search under a root                               *)
(* ------------------------------------------------------------------ *)
FileNames(paths) == {p[Len(p)] : p \in paths}

\* a directory that holds the root file and nothing else
AsDirectory(r) == RootDir({[dirs |-> <<>>, name |-> r.path[1]]})

\* what the operation of `answer` finds under the root `r`
FoundUnder(r) ==
  CASE answer.op = "search" ->
         LET res == search(opts, r)
         IN [check_files |-> FileNames(res.check_files),
             test_files |-> FileNames(res.test_files),
             data_files |-> FileNames(res.data_files)]
    [] answer.op = "check" ->
         LET found == find_files(r, answer.dotfiles)
         IN [check_files |-> FileNames({p \in found :
                               partition_role(p[Len(p)]) = "Check"}),
             test_files |-> {},
             data_files |-> FileNames({p \in found :
                               partition_role(p[Len(p)]) = "Data"})]
    [] OTHER ->
         LET found == test_find_files(r, answer.dotfiles)
         IN [check_files |-> {},
             test_files |-> FileNames({p \in found :
                               filter_role(p[Len(p)]) = "Test"}),
             data_files |-> {}]

AnswerNames ==
  [check_files |-> FileNames(answer.check_files),
   test_files |-> FileNames(answer.test_files),
   data_files |-> FileNames(answer.data_files)]

\* C13: a root that is a regular file is classified by its name and put
\* in the matching set, exactly as if it had been found while walking a
\* directory, by FileSearcher::search and by the discovery of the check
\* and test commands
C13_RootFileIsClassified ==
  (tree.is_file /\ answer.op \in {"search", "check", "test"}) =>
    AnswerNames = FoundUnder(AsDirectory(tree))

\* FileSearcher::search does so
C13_SearcherRootFile ==
  (tree.is_file /\ answer.op = "search") =>
    AnswerNames = FoundUnder(AsDirectory(tree))

\* the discovery of `check` on a root that is a data file finds nothing
C13_RootFileDropped ==
  /\ tree = RootFile("d1.json")
  /\ answer.op = "check"
  /\ answer.files = {}
  /\ FoundUnder(AsDirectory(tree)).data_files = {"d1.json"}

\* FileSearcher::search on a root that is a data file finds it
C13_SearcherWitness ==
  /\ tree = RootFile("d1.json")
  /\ answer.op = "search"
  /\ answer.data_files = {<<"d1.json">>}

\* the flags the operation of `answer` ran with
DotFilesIncluded ==
  IF answer.op = "search" THEN opts.include_dotfiles ELSE answer.dotfiles

DotDirsIncluded ==
  IF answer.op = "search" THEN opts.include_dotdirs ELSE answer.dotfiles

\* the path lies under a directory, below the root, whose name starts
\* with `.`
UnderDotDir(p) ==
  \E i \in 2..(Len(p) - 1) : starts_with_dot(file_name(p[i]))

\* C14: the search returns no path with an entry whose name starts with
\* `.` unless the matching flag is set: a file whose own name starts with
\* `.` only when dotfiles are included, a file under a directory whose
\* name starts with `.` only when dot-directories are included
C14_NoDotEntryUnlessIncluded ==
  answer.op \in {"search", "check", "test"} =>
    \A p \in answer.files :
      /\ starts_with_dot(path_file_name(p)) => DotFilesIncluded
      /\ UnderDotDir(p) => DotDirsIncluded

\* the half about the file's own name holds
C14_DotFilesExcluded ==
  answer.op \in {"search", "check", "test"} =>
    \A p \in answer.files :
      starts_with_dot(path_file_name(p)) => DotFilesIncluded

\* `check` without --dotfiles finds a data file under .git
C14_DotDirWalked ==
  /\ answer.op = "check"
  /\ ~answer.dotfiles
  /\ <<"r", ".git", "d1.json">> \in answer.data_files

\* FileSearcher::search without dot-directories finds it too
C14_DotDirSearched ==
  /\ answer.op = "search"
  /\ ~opts.include_dotdirs
  /\ <<"r", ".git", "d1.json">> \in answer.data_files

(* ------------------------------------------------------------------ *)
(* Properties of the test command                                      *)
(* ------------------------------------------------------------------ *)
TestTasks == IF mode = "test" THEN 1..Len(tasks) ELSE {}

Called(t) == tasks[t].calls # <<>>

LastCall(t) == tasks[t].calls[Len(tasks[t].calls)]

AssertionFailure == Display(RuntimeError("assertion failed!"))

\* the last test function called in task t raised an assertion failure
RaisedAssertion(t) ==
  Called(t) /\ LastCall(t).raised /\ tasks[t].raised = AssertionFailure

\* ... raised a failure that is no assertion failure
RaisedOther(t) ==
  Called(t) /\ LastCall(t).raised /\ tasks[t].raised # AssertionFailure

\* an assertion failure is one more record, and the functions that are
\* left are still called
AssertionIsRecorded(t) ==
  RaisedAssertion(t) =>
    /\ tasks[t].results # <<>>
    /\ Last(tasks[t].results) = LastCall(t).check \o ": assertion failed!"
    /\ tasks[t].pc = (IF tasks[t].pending = {} THEN "ok" ELSE "tests")

\* C15 as claimed: a failure that is no assertion failure ends the file
\* with a hard error (an error result, no list of records) and no further
\* function of the file is called; an assertion failure is recorded as
\* one record and the remaining functions are still called
C15_OtherFailureIsHardError ==
  \A t \in TestTasks :
    /\ RaisedOther(t) => (tasks[t].pc = "err" /\ tasks[t].results = <<>>)
    /\ AssertionIsRecorded(t)

\* C15 as amended: a failure that is no assertion failure ends the file
\* with a list of records whose only record is `Test function '<name>'
\* failed: <message>`, no further function of the file is called; an
\* assertion failure is recorded as one record and the remaining
\* functions are still called
C15_OtherFailureEndsFile ==
  \A t \in TestTasks :
    /\ RaisedOther(t) =>
         /\ tasks[t].pc = "ok"
         /\ tasks[t].err = <<>>
         /\ tasks[t].results = <<"Test function '" \o LastCall(t).check
                                   \o "' failed: " \o tasks[t].raised>>
    /\ AssertionIsRecorded(t)

\* a failure that is no assertion failure while another function of the
\* file has not been called yet
C15_Witness ==
  \E t \in TestTasks :
    /\ RaisedOther(t)
    /\ tasks[t].pending # {}
    /\ tasks[t].pc = "ok"

\* a record collected before the failure is dropped
C15_WitnessDropped ==
  \E t \in TestTasks :
    /\ RaisedOther(t)
    /\ Len(tasks[t].calls) = 2
    /\ tasks[t].calls[1].ret = LString("v")
    /\ Len(tasks[t].results) = 1

\* an assertion failure, after which the next function is called
C15_WitnessAssertion ==
  \E t \in TestTasks :
    /\ Len(tasks[t].calls) = 2
    /\ tasks[t].calls[1].raised
    /\ tasks[t].results = <<"TestValue: assertion failed!">>

\* the records of the calls that returned, in the order of the calls:
\* none for a call that returned nothing, one for a call that returned a
\* value, with or without the name of the file in front
RECURSIVE RecordsOf(_, _)
RecordsOf(calls, prefix) ==
  IF calls = <<>> THEN <<>>
  ELSE (IF calls[1].ret = LNil THEN <<>>
        ELSE <<prefix \o calls[1].check \o ": " \o to_json(calls[1].ret).value>>)
       \o RecordsOf(Tail(calls), prefix)

NoneRaised(t) == \A i \in 1..Len(tasks[t].calls) : ~tasks[t].calls[i].raised

\* only the globals that are functions and whose name starts with `Test`
\* are called
OnlyTestFunctionsCalled(t) ==
  \A i \in 1..Len(tasks[t].calls) :
    /\ starts_with_Test(tasks[t].calls[i].check)
    /\ interps[tasks[t].lua].globals[tasks[t].calls[i].check].t = "function"

\* C16: a `Test*` function that returns nothing and raises nothing gives
\* no record, one that returns a value gives exactly one record of the
\* form `<fileName>/<functionName>: <rendering of value>`; no other
\* global is called
C16_RecordNamesFile ==
  \A t \in TestTasks :
    /\ OnlyTestFunctionsCalled(t)
    /\ NoneRaised(t) =>
         tasks[t].results = RecordsOf(tasks[t].calls, tasks[t].file \o "/")

\* the records test.rs builds have no file name in front
C16_RecordWithoutFile ==
  \A t \in TestTasks :
    /\ OnlyTestFunctionsCalled(t)
    /\ NoneRaised(t) => tasks[t].results = RecordsOf(tasks[t].calls, "")

\* a test function has returned a value
C16_Reached ==
  \E t \in TestTasks :
    /\ NoneRaised(t)
    /\ tasks[t].results = <<"TestValue: \"v\"">>

TestDone == mode = "test" /\ pc = "done"

\* the test file of task t was loaded and every one of its `Test*`
\* functions was called, returned nothing and raised nothing
FilePasses(t) ==
  /\ tasks[t].pc = "ok"
  /\ tasks[t].pending = {}
  /\ {tasks[t].calls[i].check : i \in 1..Len(tasks[t].calls)}
       = test_functions(interps[tasks[t].lua].globals)
  /\ \A i \in 1..Len(tasks[t].calls) :
       ~tasks[t].calls[i].raised /\ tasks[t].calls[i].ret = LNil

SuccessIffAllPass ==
  TestDone => (outcome = Success <=> \A t \in TestTasks : FilePasses(t))

FailureIfAnyFails ==
  TestDone =>
    \A t \in TestTasks :
      (\E i \in 1..Len(tasks[t].calls) : tasks[t].calls[i].raised)
        => outcome.status = "err"

\* the texts of the test failures that were logged
ReportedTexts == {reported[i].findings[1] : i \in 1..Len(reported)}

\* the failure of the i-th call of task t is among the logged failures
FailureReported(t, i) ==
  LET call == tasks[t].calls[i]
  IN \/ call.check \o ": " \o call.msg \in ReportedTexts
     \/ "Test function '" \o call.check \o "' failed: "
          \o Display(RuntimeError(call.msg)) \in ReportedTexts

\* a function called after the i-th one raised a failure that is no
\* assertion failure
LaterOtherFailure(t, i) ==
  \E j \in (i + 1)..Len(tasks[t].calls) :
    tasks[t].calls[j].raised /\ tasks[t].calls[j].msg # "assertion failed!"

\* C17 as claimed: `test` returns success exactly when every test file
\* loads and every `Test*` function passes; when a function fails, by a
\* failed assertion or by an error raised in the check it calls, the
\* command returns failure and the failure message of that function is
\* reported
C17_EveryFailureReported ==
  /\ SuccessIffAllPass
  /\ FailureIfAnyFails
  /\ TestDone =>
       \A t \in TestTasks : \A i \in 1..Len(tasks[t].calls) :
         tasks[t].calls[i].raised => FailureReported(t, i)

\* C17 as amended: success exactly when every test file loads and every
\* `Test*` function passes; when a function fails the command returns
\* failure, and the failure message of that function is reported when no
\* file ended with a hard error and no function called after it in its
\* file raised a failure that is no assertion failure
C17_FailureReportedUnlessAborted ==
  /\ SuccessIffAllPass
  /\ FailureIfAnyFails
  /\ TestDone =>
       \A t \in TestTasks : \A i \in 1..Len(tasks[t].calls) :
         (tasks[t].calls[i].raised /\ saved = <<>> /\ ~LaterOtherFailure(t, i))
           => FailureReported(t, i)

\* two files fail, each with its own message reported
C17_Witness ==
  /\ TestDone
  /\ outcome = Failure(<<"one or more tests failed">>)
  /\ Len(tasks) = 2
  /\ \A t \in TestTasks :
       /\ \E i \in 1..Len(tasks[t].calls) : tasks[t].calls[i].raised
       /\ \A i \in 1..Len(tasks[t].calls) :
            tasks[t].calls[i].raised => FailureReported(t, i)

\* every function of a file that has functions passes: success
C17_WitnessSuccess ==
  /\ TestDone
  /\ outcome = Success
  /\ \E t \in TestTasks : tasks[t].calls # <<>>

\* a failed assertion whose message is not reported
C17_WitnessUnreported ==
  /\ TestDone
  /\ saved = <<>>
  /\ \E t \in TestTasks : \E i \in 1..Len(tasks[t].calls) :
       /\ tasks[t].calls[i].msg = "assertion failed!"
       /\ ~FailureReported(t, i)

(* ------------------------------------------------------------------ *)
(* Determinism of the check command                                    *)
(* ------------------------------------------------------------------ *)
\* The run of `check` in which the walk delivers the files in path order,
\* computed with the operators of the model: its status and the set of
\* its log events
RECURSIVE RefDocs(_, _, _, _)
RefDocs(body, docs, g, acc) ==
  IF docs = <<>> THEN [ok |-> TRUE, globals |-> g, errors |-> acc]
  ELSE LET r == check_call(body, docs[1], g)
       IN IF ~r.ok THEN [ok |-> FALSE, globals |-> r.globals, errors |-> <<>>]
          ELSE RefDocs(body, Tail(docs), r.globals, acc \o r.errors)

RECURSIVE RefChecks(_, _, _, _, _, _)
RefChecks(file, checks, docs, g, fs, events) ==
  IF checks = <<>> THEN [ok |-> TRUE, events |-> events]
  ELSE LET l == Exec(checks[1], g, <<parent(file)>>, fs)
       IN IF ~l.ok \/ l.globals["Check"].t # "function"
          THEN [ok |-> FALSE, events |-> {}]
          ELSE LET r == RefDocs(l.globals["Check"].v, docs, l.globals, <<>>)
               IN IF ~r.ok THEN [ok |-> FALSE, events |-> {}]
                  ELSE RefChecks(file, Tail(checks),
                         [i \in 1..Len(docs) |->
                            document_after(l.globals["Check"].v, docs[i])],
                         r.globals, fs,
                         events \cup Range(log_events(file, checks[1], r.errors)))

RefFile(file, checks, fs) ==
  LET parsed == parse_documents(file)
      g == [FreshGlobals EXCEPT
              !["_CHECK_FILE"] = StrV(to_string_lossy(file)),
              !["_CHECK_DIR"] = StrV(parent(file))]
  IN IF ~parsed.ok THEN [ok |-> FALSE, events |-> {}]
     ELSE RefChecks(file, checks, parsed.docs, g, fs, {})

Reference(fs) ==
  LET order == SelectSeq(SortedPaths, LAMBDA f : f \in fs)
      cands == SelectSeq(order, is_lua_file)
      lua == SelectSeq(cands, LAMBDA f : /\ has_check_function(f, fs).ok
                                         /\ has_check_function(f, fs).value)
      data == SelectSeq(order, LAMBDA f : ~is_lua_file(f))
      files == [i \in 1..Len(data) |-> RefFile(data[i], lua, fs)]
      events == UNION {files[i].events : i \in 1..Len(data)}
  IN IF \/ \E i \in 1..Len(cands) : ~has_check_function(cands[i], fs).ok
        \/ ensure_inputs(lua, data) # <<>>
        \/ \E i \in 1..Len(data) : ~files[i].ok
     THEN [status |-> "err", events |-> {}]
     ELSE [status |-> IF \E e \in events : e.level = "error"
                      THEN "err" ELSE "ok",
           events |-> events]

CheckDone == mode = "check" /\ pc = "done"

\* the data files of the log are in path order
ReportedInPathOrder ==
  \A i \in 1..Len(reported) : \A j \in i..Len(reported) :
    PathRank(reported[i].path) <= PathRank(reported[j].path)

\* C18: for fixed files and scripts the reported findings (per data file
\* in path order, per check, in order) and the success or failure of the
\* run are the same for every order in which the walk delivers the files
\* and every order in which the tasks complete: they are those of the run
\* that gets the files in path order
C18_SameFindingsAndStatus ==
  CheckDone =>
    /\ outcome.status = Reference(dir).status
    /\ Range(reported) = Reference(dir).events
    /\ ReportedInPathOrder

\* it is so when no check script of the directory writes a global that
\* another one reads, or a document
C18_SameWithoutSharedGlobals ==
  (CheckDone /\ "tag.lua" \notin dir /\ "edit.lua" \notin dir) =>
    /\ outcome.status = Reference(dir).status
    /\ Range(reported) = Reference(dir).events
    /\ ReportedInPathOrder

\* in path order leak.lua is loaded before tag.lua: no finding, success;
\* when the walk delivers tag.lua first, leak.lua reports a finding and
\* the run fails
C18_OrderChangesStatus ==
  /\ CheckDone
  /\ dir = {"leak.lua", "tag.lua", "d1.json"}
  /\ outcome = Failure(<<"one or more errors were found during checks">>)
  /\ Reference(dir).status = "ok"

(* ------------------------------------------------------------------ *)
(* Properties of the call of Check                                     *)
(* ------------------------------------------------------------------ *)
CheckTasks == IF mode = "check" THEN 1..Len(tasks) ELSE {}

\* C19: for every (document, check script) pair, `Check` is called with
\* the two arguments (document, context), where context maps at least
\* `check_file` to the path of the check script and `document_file` to
\* the path of the data file
C19_CheckGetsContext ==
  \A t \in CheckTasks : \A i \in 1..Len(tasks[t].calls) :
    LET call == tasks[t].calls[i]
    IN /\ Len(call.args) = 2
       /\ call.args[1] = tasks[t].docs[call.doc]
       /\ call.args[2].check_file = to_string_lossy(call.check)
       /\ call.args[2].document_file = to_string_lossy(tasks[t].file)

\* `Check` is called with the document and nothing else
C19_CheckGetsDocumentOnly ==
  \A t \in CheckTasks : \A i \in 1..Len(tasks[t].calls) :
    tasks[t].calls[i].args = <<tasks[t].docs[tasks[t].calls[i].doc]>>

C19_Reached ==
  \E t \in CheckTasks : Len(tasks[t].calls) = 2

(* ------------------------------------------------------------------ *)
(* Properties of the module search path                                *)
(* ------------------------------------------------------------------ *)
\* the chunks of check scripts the interpreters have run
CheckLoads ==
  IF mode # "check" THEN {}
  ELSE UNION {{[lua |-> i, file |-> interps[i].loaded[k].file,
                at |-> interps[i].loaded[k].at] :
                 k \in 1..Len(interps[i].loaded)} : i \in 1..Len(interps)}

\* C20: before the body of a check script is executed, when it is probed
\* for `Check` and when it is evaluated against a data file, the module
\* search path of the interpreter that executes it includes the script's
\* own directory
C20_PathHasScriptDir ==
  \A l \in CheckLoads : parent(l.file) \in Range(l.at)

\* when a script is evaluated the path has the directory of the data
\* file; when it is probed, no directory was added
C20_PathHasDataDir ==
  \A l \in CheckLoads :
    IF \E t \in CheckTasks : tasks[t].lua = l.lua
    THEN \A t \in CheckTasks :
           tasks[t].lua = l.lua => l.at = <<parent(tasks[t].file)>>
    ELSE l.at = <<>>

\* a check script of /root is evaluated against a data file of /data
C20_EvaluatedElsewhere ==
  \E l \in CheckLoads :
    /\ \E t \in CheckTasks : tasks[t].lua = l.lua
    /\ parent(l.file) = "/root"
    /\ l.at = <<"/data">>

(* ------------------------------------------------------------------ *)
(* C21: a failed read is fatal to the search and is reported with the  *)
(* path that could not be read                                         *)
(* ------------------------------------------------------------------ *)
\* the places whose read the walk attempted and saw fail
FailedReads ==
  {d \in answer.failed :
     \A o \in answer.failed : ~(is_prefix(o, d) /\ o # d)}

\* the search gave an error and no file
SearchIsError ==
  /\ ~answer.ok
  /\ answer.err # NoSearchError
  /\ answer.check_files = {}
  /\ answer.test_files = {}
  /\ answer.data_files = {}

\* C21: when the read of a directory or of an entry fails during
\* FileSearcher::search, whatever the root and whichever error the
\* parallel fold and reduce meet first, the search returns an error and
\* no FileSearchResult holding part of the files, and the path the error
\* names is the path of a read that failed
C21_FailedReadIsFatalAndNamed ==
  answer.op = "search_failing" =>
    /\ SearchIsError
    /\ answer.err.path \in FailedReads

\* the first half alone: a failed read gives an error and no files
C21_FailedReadIsFatal ==
  answer.op = "search_failing" => SearchIsError

\* the walkdir error kept as the source of the error does have the path
\* of a read that failed
C21_SourceNamesFailedRead ==
  answer.op = "search_failing" => answer.err.source.path \in FailedReads

\* a read below the root fails and the error names the root
C21_ErrorNamesRoot ==
  /\ answer.op = "search_failing"
  /\ answer.err.path = tree.path
  /\ tree.path \notin answer.failed
  /\ searcher_find_files(opts, tree) # {}

(* ------------------------------------------------------------------ *)
(* C22: a check is called once per document, in the order of the file, *)
(* and its findings are those of the documents in that order           *)
(* ------------------------------------------------------------------ *)
\* the calls task t made to the check c, in the order they were made
CallsOf(t, c) ==
  LET of_c(call) == call.check = c
  IN SelectSeq(tasks[t].calls, of_c)

\* the findings of a sequence of calls, one after the other
RECURSIVE Concatenated(_)
Concatenated(calls) ==
  IF calls = <<>> THEN <<>>
  ELSE calls[1].errors \o Concatenated(Tail(calls))

\* the (check, findings) pairs task t kept for the check c
KeptFor(t, c) ==
  LET of_c(r) == r.check = c
  IN SelectSeq(tasks[t].results, of_c)

\* the calls are the documents 1..k of n, each once and in that order,
\* and only the last of them can have failed
CalledInDocumentOrder(calls, n) ==
  /\ Len(calls) <= n
  /\ \A i \in 1..Len(calls) :
       /\ calls[i].doc = i
       /\ (~calls[i].ok => i = Len(calls))

\* the calls of a check that is over: all n documents and their findings
\* kept in the order of the calls, or a failed last call that ended the
\* task with nothing kept for the check
CheckOver(t, c, calls, n) ==
  IF calls = <<>> \/ calls[Len(calls)].ok
  THEN /\ Len(calls) = n
       /\ IF Concatenated(calls) = <<>> THEN KeptFor(t, c) = <<>>
          ELSE KeptFor(t, c) = <<[check |-> c, errors |-> Concatenated(calls)]>>
  ELSE /\ tasks[t].pc = "err"
       /\ tasks[t].calls[Len(tasks[t].calls)] = calls[Len(calls)]
       /\ KeptFor(t, c) = <<>>

\* the documents each file of the universe parses to, and whether the
\* file is a JSON or a TOML file
ParsedFiles == [f \in Universe |-> parse_documents(f)]

SingleDocumentFiles ==
  {f \in Universe : \/ has_extension(f, <<"j", "s", "o", "n">>)
                    \/ has_extension(f, <<"t", "o", "m", "l">>)}

\* the documents of a task are those of its file: one for a JSON or a
\* TOML file that parses
DocumentsOfFile(t) ==
  LET file == tasks[t].file
  IN /\ Len(tasks[t].docs) = Len(ParsedFiles[file].docs)
     /\ (ParsedFiles[file].ok /\ file \in SingleDocumentFiles)
          => Len(ParsedFiles[file].docs) = 1

\* C22: for a data file with the documents d1..dn in source order (one
\* for JSON and TOML, one per entry for YAML), each check's `Check` is
\* called once per document in the order d1..dn; the findings kept for
\* the check are the per-document findings concatenated in that order;
\* and after a call that fails no call is made for a later document
C22_DocumentsCheckedInOrder ==
  \A t \in CheckTasks :
    tasks[t].pc \notin {"idle", "skipped"} =>
      /\ DocumentsOfFile(t)
      /\ \A j \in 1..Len(lua_files) :
           LET c == lua_files[j]
               calls == CallsOf(t, c)
               n == Len(tasks[t].docs)
           IN /\ CalledInDocumentOrder(calls, n)
              /\ j > tasks[t].ci => calls = <<>>
              /\ j < tasks[t].ci => CheckOver(t, c, calls, n)
              /\ (j = tasks[t].ci /\ tasks[t].pc = "err" /\ calls # <<>>)
                   => CheckOver(t, c, calls, n)

\* a check went through a file of three documents and the findings of
\* the documents differ, so their order shows
C22_Witness ==
  \E t \in CheckTasks : \E c \in Range(lua_files) :
    /\ tasks[t].pc = "ok"
    /\ Len(CallsOf(t, c)) = 3
    /\ CallsOf(t, c)[2].errors # CallsOf(t, c)[3].errors
    /\ KeptFor(t, c) # <<>>

\* a call failed on the first of three documents and the task ended
C22_WitnessFailed ==
  \E t \in CheckTasks : \E c \in Range(lua_files) :
    /\ tasks[t].pc = "err"
    /\ Len(tasks[t].docs) = 3
    /\ Len(CallsOf(t, c)) = 1
    /\ ~CallsOf(t, c)[1].ok

(* ------------------------------------------------------------------ *)
(* C23: every check is given the documents as they were parsed         *)
(* ------------------------------------------------------------------ *)
\* C23: every call of a check's `Check` on a document of a data file is
\* given the document as it was parsed from the file: no change an
\* earlier check made to the value (a field set or removed) shows
C23_CheckGetsParsedDocument ==
  \A t \in CheckTasks :
    \A i \in 1..Len(tasks[t].calls) :
      LET call == tasks[t].calls[i]
      IN call.args[1] = parse_documents(tasks[t].file).docs[call.doc]

\* within one check, every call is given the document as it was when the
\* check began: the changes come from the checks before only
C23_FirstCheckGetsParsedDocument ==
  \A t \in CheckTasks :
    \A i \in 1..Len(tasks[t].calls) :
      LET call == tasks[t].calls[i]
      IN call.check = lua_files[1] =>
           call.args[1] = parse_documents(tasks[t].file).docs[call.doc]

\* a check was given a document an earlier check had changed, and the
\* finding it made has the severity the earlier check wrote
C23_ChangeObserved ==
  \E t \in CheckTasks : \E i \in 1..Len(tasks[t].calls) :
    LET call == tasks[t].calls[i]
    IN /\ call.args[1] # parse_documents(tasks[t].file).docs[call.doc]
       /\ parse_documents(tasks[t].file).docs[call.doc].level = "error"
       /\ call.errors = <<CheckError("Warning", "m")>>

====
